---------------------------- MODULE Spec2Model ----------------------------
(***************************************************************************)
(* Model of the test-attempt engine of jeetest-backend                     *)
(* (src/src/controllers/attemptController.js, testController.js and the    *)
(* Prisma schema in src/prisma/migrations).                                *)
(*                                                                         *)
(* Every `await prisma...` of a handler is one atomic database statement;  *)
(* other requests may run between two statements of the same handler.      *)
(* The writes a handler issues together through Promise.all reach the      *)
(* database one by one, in any order.                                      *)
(***************************************************************************)
EXTENDS Integers, Sequences, FiniteSets, TLC

(***************************************************************************)
(* JavaScript values of the request payloads.                              *)
(*   selectedOption : a string; OptNull / OptUndef stand for null and for  *)
(*                    a missing property, "" is the empty string.          *)
(*   integerAnswer  : <<kind, n>> with kind "null", "undefined", "empty"   *)
(*                    (the empty string), "numstr" (the string that spells *)
(*                    the integer n) or "number" (the integer n).          *)
(* Nullable Int columns of the database hold IntNull or JsNum(n).          *)
(***************************************************************************)
OptNull == "<null>"
OptUndef == "<undefined>"
IntNull == <<"null", 0>>
IntUndef == <<"undefined", 0>>
IntEmpty == <<"empty", 0>>
JsNum(n) == <<"number", n>>
JsStr(n) == <<"numstr", n>>

\* Largest integer used as an answer or as an answer key.
MaxInt == 1

\* createTest: every question is stored with marks 4 and negativeMarks -1.
DefaultMarks == 4
DefaultNegativeMarks == -1
\* The defaults of retryDatabaseOperation: maxRetries and baseDelay (ms).
DefaultMaxRetries == 3
DefaultBaseDelay == 1000

\* updateWarningCount: the warning count that forces a submission.
WarningThreshold == 5

AnswerStatus == {"NOT_VISITED", "NOT_ANSWERED", "ANSWERED", "MARKED_FOR_REVIEW"}
QuestionType == {"MCQ", "INTEGER"}
Options == {"A", "B"}

\* JavaScript truthiness of a selectedOption / correctOption value.
Truthy(s) == s \notin {OptNull, OptUndef, ""}

\* `v !== null && v !== undefined` for an integerAnswer value.
NotNullish(v) == v[1] \notin {"null", "undefined"}

\* The conversion of lines 116 and 197:
\*   v !== null && v !== undefined && v !== '' ? parseInt(v) : null
StoredInteger(v) ==
  IF NotNullish(v) /\ v[1] # "empty" THEN JsNum(v[2]) ELSE IntNull

\* A mis-scoring submitTest: MARKED_FOR_REVIEW answers are not scored.
ScoreAnswerNoReview(q, a) ==
  IF a.status = "ANSWERED"
  THEN IF Truthy(q.correctOption) /\ a.selectedOption = q.correctOption
       THEN [isCorrect |-> "true", marksAwarded |-> q.marks]
       ELSE IF q.correctInteger # IntNull /\ a.integerAnswer = q.correctInteger
       THEN [isCorrect |-> "true", marksAwarded |-> q.marks]
       ELSE IF Truthy(a.selectedOption) \/ NotNullish(a.integerAnswer)
       THEN [isCorrect |-> "false", marksAwarded |-> q.negativeMarks]
       ELSE [isCorrect |-> "null", marksAwarded |-> 0]
  ELSE [isCorrect |-> "null", marksAwarded |-> 0]

\* submitTest, lines 172-189: isCorrect and marksAwarded of one submitted answer.
\* `===` between the payload's integerAnswer and the Int column correctInteger
\* holds only for a number: a numeric string is never strictly equal to it.
ScoreAnswer(q, a) ==
  IF a.status = "ANSWERED" \/ a.status = "MARKED_FOR_REVIEW"
  THEN IF Truthy(q.correctOption) /\ a.selectedOption = q.correctOption
       THEN [isCorrect |-> "true", marksAwarded |-> q.marks]
       ELSE IF q.correctInteger # IntNull /\ a.integerAnswer = q.correctInteger
       THEN [isCorrect |-> "true", marksAwarded |-> q.marks]
       ELSE IF Truthy(a.selectedOption) \/ NotNullish(a.integerAnswer)
       THEN [isCorrect |-> "false", marksAwarded |-> q.negativeMarks]
       ELSE [isCorrect |-> "null", marksAwarded |-> 0]
  ELSE [isCorrect |-> "null", marksAwarded |-> 0]


(***************************************************************************)
(* The scoring rule on its own: one question, one submitted answer.        *)
(***************************************************************************)
VARIABLES
  sq,        \* the question being scored
  sa,        \* the submitted answer
  sres,      \* the update submitTest computed for it, or NotScored
  sbody,     \* the syncAnswers body a client sends and sends again
  retry,     \* the locals of a retryDatabaseOperation call and its caller
  authored   \* the question an author sends to createTest / updateTest

scoreVars == <<sq, sa, sres, sbody, retry, authored>>

NotScored == [scored |-> FALSE]

\* No authored question under study.
NoQuestion ==
  [questionType |-> "MCQ", correctOption |-> OptNull,
   correctInteger |-> IntNull, saved |-> FALSE]

\* No syncAnswers body under study.
NoBody == [attemptId |-> 0, answers |-> <<>>]

\* An error as the error handler looks at it: its name, its code and the
\* phrases of lines 14-16 and 34-36 that its message contains.
Err(name, code, phrases) == [name |-> name, code |-> code, phrases |-> phrases]
NoError == Err("", "", {})

\* No retryDatabaseOperation call under study.
NoRetry ==
  [pc |-> "idle", maxRetries |-> 0, baseDelay |-> 0, attempt |-> 0,
   calls |-> 0, lastError |-> NoError, waited |-> <<>>, thrown |-> NoError,
   resp |-> 0]

\* Integers 0..MaxInt as numbers, the values of a nullable Int column.
IntColumn == {IntNull} \cup {JsNum(n) : n \in 0..MaxInt}

\* createTest / updateTest, lines 68-71 and 357-358: correctOption is null or
\* a non-empty string, correctInteger is null or an integer, whatever the
\* questionType of the section; marks and negativeMarks are fixed.
StoredQuestions ==
  [questionType : QuestionType,
   correctOption : {OptNull} \cup Options,
   correctInteger : IntColumn,
   marks : {DefaultMarks},
   negativeMarks : {DefaultNegativeMarks}]

\* The answers a request body can carry for one question.
PayloadOptions == {OptNull, OptUndef, ""} \cup Options
PayloadIntegers ==
  {IntNull, IntUndef, IntEmpty}
    \cup {JsNum(n) : n \in 0..MaxInt} \cup {JsStr(n) : n \in 0..MaxInt}
PayloadAnswers ==
  [questionId : {"q1"},
   selectedOption : PayloadOptions,
   integerAnswer : PayloadIntegers,
   status : AnswerStatus]


(***************************************************************************)
(* The database and the requests in flight.                                *)
(***************************************************************************)
VARIABLES
  tests,     \* tests:         testId -> [isLive]
  attempts,  \* test_attempts: attempt id -> row; the domain is the rows that exist
  answers,   \* answers:       attempt id -> (questionId -> row)
  nextId,    \* the id the next created attempt gets (ids are never reused)
  now,       \* the clock read by `new Date()`
  procs,     \* the requests in flight: handler, position and local variables
  budget     \* what the environment may still do: requests (ops), warning
             \* requests (warnings), storage errors (faults), resume
             \* handshake requests (resumes), toggleTestLive requests
             \* (toggles) and time tracking requests (times) left

dbVars == <<tests, attempts, answers, nextId, now>>
vars ==
  <<tests, attempts, answers, nextId, now, procs, budget, sq, sa, sres, sbody,
    retry, authored>>

\* Requests (start, sync, submit) one behaviour of Spec issues.
MaxOps == 3
\* Storage errors one behaviour of Spec suffers.
MaxFaults == 1
\* Requests (start, sync, submit) one behaviour of SpecWarning issues.
MaxWarningOps == 2
\* updateWarningCount requests one behaviour of SpecWarning issues.
MaxWarnings == 6

\* startTestAttempt requests one behaviour of SpecResume issues.
MaxResumeOps == 3
\* requestResume and allowResume requests one behaviour of SpecResume issues.
MaxResumes == 3
\* Requests (start, submit) one behaviour of SpecLive issues.
MaxLiveOps == 4
\* toggleTestLive requests one behaviour of SpecLive issues.
MaxToggles == 1

\* Requests (start, sync) one behaviour of SpecTime issues.
MaxTimeOps == 2
\* updateQuestionTime and syncTimeData requests one behaviour of SpecTime issues.
MaxTimes == 3

\* Requests (one submit or one warning each) one behaviour of SpecEquiv issues.
MaxEquivRequests == 1

\* Requests (start, submit) one behaviour of SpecCohort issues.
MaxCohortOps == 3
\* The syncAnswers requests of SpecSync.
MaxSyncOps == 2
\* The time tracking requests of SpecTrack.
MaxTrackTimes == 3
\* The requests of SpecList: starts and submits, handshake requests,
\* getResumeRequests calls, and the ticks of the clock between them.
MaxListOps == 2
MaxListResumes == 3
MaxLists == 1
MaxTicks == 1
\* The submitTest requests of SpecSkip.
MaxSkipOps == 2
\* The updateTest requests of SpecAuthor.
MaxAuthorUpdates == 1
\* The start and submit requests of SpecFrame.
MaxFrameOps == 3
\* The updateWarningCount requests of SpecForced.
MaxForcedWarnings == 2
\* The largest maxRetries of SpecRetry.
MaxMaxRetries == 4

\* A budget with nothing left.
NoBudget ==
  [ops |-> 0, warnings |-> 0, faults |-> 0, resumes |-> 0, toggles |-> 0,
   times |-> 0, lists |-> 0, ticks |-> 0]

Procs == {"p1", "p2"}
Candidates == {"alice"}
TestIds == {"t1"}
\* The candidates of SpecCohort.
Cohort == Candidates \cup {"bob"}
\* A testId and an attemptId that name no row.
NoTest == "t0"
NoAttempt == 0

\* The questions of test t1 as createTest stored them: q1 in an MCQ section,
\* q2 in an INTEGER section.
Catalog ==
  [q1 |-> [questionType |-> "MCQ", correctOption |-> "B",
           correctInteger |-> IntNull,
           marks |-> DefaultMarks, negativeMarks |-> DefaultNegativeMarks],
   q2 |-> [questionType |-> "INTEGER", correctOption |-> OptNull,
           correctInteger |-> JsNum(1),
           marks |-> DefaultMarks, negativeMarks |-> DefaultNegativeMarks]]
Questions == DOMAIN Catalog
QuestionOrder == <<"q1", "q2">>

\* The attempt ids a client can send: those the server has handed out, and
\* NoAttempt, which names no attempt.
AttemptIds == 0..(nextId - 1)

\* The questions of another test: rows of `questions` that no attempt on t1
\* has an answer for.
OtherTest == "t2"
OtherQuestions == {"q3"}
\* The order in which findMany returns the answers of an attempt.
RowOrder == QuestionOrder \o <<"q3">>

\* The columns the handlers read and write that the schema added after the
\* first migration, with the values a create that does not name them leaves:
\* the time tracking columns of `answers` (a timestamp 0 is null) and the
\* resume handshake columns of `test_attempts`.
TimeColumnDefaults ==
  [timeSpent |-> 0, visitCount |-> 0, firstVisitTime |-> 0, lastVisitTime |-> 0]
ResumeColumnDefaults ==
  [needsResume |-> FALSE, canResume |-> FALSE, resumeRequestedAt |-> 0]

\* An `answers` row as the nested create of startTestAttempt makes it
\* (line 64-69 and the column defaults of the schema).
NewAnswer ==
  [selectedOption |-> OptNull, integerAnswer |-> IntNull,
   status |-> "NOT_VISITED", isCorrect |-> "null", marksAwarded |-> 0]
    @@ TimeColumnDefaults

\* A `test_attempts` row as startTestAttempt creates it (line 58-62 and the
\* column defaults). endTime 0 is null.
NewAttempt(testId, cand) ==
  [testId |-> testId, candidateName |-> cand, isCompleted |-> FALSE,
   totalMarks |-> 0, endTime |-> 0, warningCount |-> 0]
    @@ ResumeColumnDefaults

\* One entry of a request's `answers` array.
Entry(q, sel, int, st) ==
  [questionId |-> q, selectedOption |-> sel, integerAnswer |-> int, status |-> st]

Q1Right == Entry("q1", "B", IntNull, "ANSWERED")
Q1Wrong == Entry("q1", "A", IntNull, "ANSWERED")
Q2Right == Entry("q2", OptNull, JsNum(1), "ANSWERED")
Q2Wrong == Entry("q2", OptNull, JsNum(0), "MARKED_FOR_REVIEW")

\* The bodies of submitTest requests: nothing, one answer, every question,
\* and one question answered twice.
SubmitPayloads ==
  {<<>>, <<Q1Wrong>>, <<Q1Right, Q2Right>>, <<Q1Right, Q1Wrong>>}
\* The bodies of the submitTest requests of SpecLive.
LiveSubmitPayloads == {<<>>, <<Q1Right>>}
\* The bodies of syncAnswers requests.
SyncPayloads == {<<Q1Right>>, <<Q1Wrong, Q2Wrong>>}

\* The locals of updateQuestionTime: questionId, timeSpent and action of the
\* body, and the answer row read at line 925.
NoTime ==
  [questionId |-> "", timeSpent |-> 0, action |-> "",
   read |-> TimeColumnDefaults]

Idle ==
  [op |-> "idle", pc |-> "idle", testId |-> NoTest, cand |-> "",
   attemptId |-> NoAttempt, existing |-> NoAttempt, payload |-> <<>>,
   wasCompleted |-> FALSE, updates |-> <<>>, pending |-> {}, total |-> 0,
   failed |-> FALSE, time |-> NoTime, listed |-> <<>>, resp |-> 0]

\* The handler of p has answered with HTTP status `code`.
Respond(p, code) == procs' = [procs EXCEPT ![p] = [Idle EXCEPT !.resp = code]]

Init ==
  /\ tests = [t \in TestIds |-> [isLive |-> TRUE]]
  /\ attempts = <<>>
  /\ answers = <<>>
  /\ nextId = 1
  /\ now = 1
  /\ procs = [p \in Procs |-> Idle]
  /\ budget = [NoBudget EXCEPT !.ops = MaxOps, !.faults = MaxFaults]
  /\ sq = [questionType |-> "MCQ", correctOption |-> OptNull,
           correctInteger |-> IntNull,
           marks |-> DefaultMarks, negativeMarks |-> DefaultNegativeMarks]
  /\ sa = [questionId |-> "q1", selectedOption |-> OptNull,
           integerAnswer |-> IntNull, status |-> "NOT_VISITED"]
  /\ sres = NotScored
  /\ sbody = NoBody
  /\ retry = NoRetry
  /\ authored = NoQuestion

\* A map without the key k.
Without(f, k) == [x \in (DOMAIN f) \ {k} |-> f[x]]

(***************************************************************************)
(* startTestAttempt                                                        *)
(***************************************************************************)
\* A startTestAttempt without the isLive check of lines 25-27.
StartTestAttemptNoLiveCheck(p, testId, cand) ==
  /\ procs[p].op = "idle"
  /\ budget.ops > 0
  /\ budget' = [budget EXCEPT !.ops = @ - 1]
  /\ IF testId \notin DOMAIN tests
     THEN Respond(p, 404)
     ELSE procs' = [procs EXCEPT ![p] =
            [Idle EXCEPT !.op = "start", !.pc = "findFirst",
                         !.testId = testId, !.cand = cand]]
  /\ UNCHANGED <<dbVars, scoreVars>>

\* Lines 10-27: the request arrives and the test is looked up.
StartTestAttempt(p, testId, cand) ==
  /\ procs[p].op = "idle"
  /\ budget.ops > 0
  /\ budget' = [budget EXCEPT !.ops = @ - 1]
  /\ IF testId \notin DOMAIN tests
     THEN Respond(p, 404)
     ELSE IF ~tests[testId].isLive
     THEN Respond(p, 400)
     ELSE procs' = [procs EXCEPT ![p] =
            [Idle EXCEPT !.op = "start", !.pc = "findFirst",
                         !.testId = testId, !.cand = cand]]
  /\ UNCHANGED <<dbVars, scoreVars>>

\* A startTestAttempt without the resume check of lines 42-49.
StartFindFirstNoResumeCheck(p) ==
  /\ procs[p].pc = "findFirst"
  /\ LET me == procs[p]
         found == {a \in DOMAIN attempts :
                     /\ attempts[a].testId = me.testId
                     /\ attempts[a].candidateName = me.cand}
     IN IF found = {}
        THEN procs' = [procs EXCEPT ![p].pc = "create"]
        ELSE \E a \in found :
               IF attempts[a].isCompleted
               THEN Respond(p, 400)
               ELSE procs' = [procs EXCEPT ![p].pc = "delete",
                                           ![p].existing = a]
  /\ UNCHANGED <<dbVars, budget, scoreVars>>

\* Lines 30-49: findFirst returns any attempt of (testId, candidateName); the
\* 403 answer carries the id of the attempt found.
StartFindFirst(p) ==
  /\ procs[p].pc = "findFirst"
  /\ LET me == procs[p]
         found == {a \in DOMAIN attempts :
                     /\ attempts[a].testId = me.testId
                     /\ attempts[a].candidateName = me.cand}
     IN IF found = {}
        THEN procs' = [procs EXCEPT ![p].pc = "create"]
        ELSE \E a \in found :
               IF attempts[a].isCompleted
               THEN Respond(p, 400)
               ELSE IF attempts[a].needsResume /\ ~attempts[a].canResume
               THEN procs' = [procs EXCEPT ![p] =
                      [Idle EXCEPT !.resp = 403, !.attemptId = a]]
               ELSE procs' = [procs EXCEPT ![p].pc = "delete",
                                           ![p].existing = a]
  /\ UNCHANGED <<dbVars, budget, scoreVars>>

\* A startTestAttempt that goes on to the create without the delete of
\* lines 52-54.
StartDeleteSkipped(p) ==
  /\ procs[p].pc = "delete"
  /\ procs' = [procs EXCEPT ![p].pc = "create"]
  /\ UNCHANGED <<dbVars, budget, scoreVars>>

\* Lines 52-54: delete the attempt found; its answers go with it (ON DELETE
\* CASCADE). Deleting a row that is gone throws, and line 94-97 answers 500.
StartDelete(p) ==
  /\ procs[p].pc = "delete"
  /\ LET a == procs[p].existing
     IN IF a \in DOMAIN attempts
        THEN /\ attempts' = Without(attempts, a)
             /\ answers' = Without(answers, a)
             /\ procs' = [procs EXCEPT ![p].pc = "create"]
        ELSE /\ Respond(p, 500)
             /\ UNCHANGED <<attempts, answers>>
  /\ UNCHANGED <<tests, nextId, now, budget, scoreVars>>

\* A startTestAttempt whose nested create covers the first question only.
StartCreateFirstQuestionOnly(p) ==
  /\ procs[p].pc = "create"
  /\ attempts' = attempts @@ (nextId :> NewAttempt(procs[p].testId, procs[p].cand))
  /\ answers' = answers @@ (nextId :> [q \in {QuestionOrder[1]} |-> NewAnswer])
  /\ nextId' = nextId + 1
  /\ Respond(p, 201)
  /\ UNCHANGED <<tests, now, budget, scoreVars>>

\* Lines 58-93: create the attempt with one NOT_VISITED answer per question.
StartCreate(p) ==
  /\ procs[p].pc = "create"
  /\ attempts' = attempts @@ (nextId :> NewAttempt(procs[p].testId, procs[p].cand))
  /\ answers' = answers @@ (nextId :> [q \in Questions |-> NewAnswer])
  /\ nextId' = nextId + 1
  /\ Respond(p, 201)
  /\ UNCHANGED <<tests, now, budget, scoreVars>>


(***************************************************************************)
(* syncAnswers                                                             *)
(***************************************************************************)
\* Prisma leaves a column alone when the value given for it is undefined.
SetOption(old, new) == IF new = OptUndef THEN old ELSE new

\* Lines 114-118: the `data` of the update of one entry.
SyncUpdate(e) ==
  [questionId |-> e.questionId, selectedOption |-> e.selectedOption,
   integerAnswer |-> StoredInteger(e.integerAnswer), status |-> e.status,
   scored |-> FALSE, isCorrect |-> "null", marksAwarded |-> 0]

\* An update that also counts a visit of the row.
ApplyUpdateCountsVisit(row, u) ==
  IF u.scored
  THEN [row EXCEPT !.selectedOption = SetOption(@, u.selectedOption),
                   !.integerAnswer = u.integerAnswer,
                   !.status = u.status,
                   !.isCorrect = u.isCorrect,
                   !.marksAwarded = u.marksAwarded]
  ELSE [row EXCEPT !.selectedOption = SetOption(@, u.selectedOption),
                   !.integerAnswer = u.integerAnswer,
                   !.status = u.status,
                   !.visitCount = @ + 1]

\* An update whose unscored form resets the score of the row.
ApplyUpdateClearsScore(row, u) ==
  [row EXCEPT !.selectedOption = SetOption(@, u.selectedOption),
              !.integerAnswer = u.integerAnswer,
              !.status = u.status,
              !.isCorrect = u.isCorrect,
              !.marksAwarded = u.marksAwarded]

\* prisma.answer.update of lines 107-119 and 206-220 applied to a row.
ApplyUpdate(row, u) ==
  IF u.scored
  THEN [row EXCEPT !.selectedOption = SetOption(@, u.selectedOption),
                   !.integerAnswer = u.integerAnswer,
                   !.status = u.status,
                   !.isCorrect = u.isCorrect,
                   !.marksAwarded = u.marksAwarded]
  ELSE [row EXCEPT !.selectedOption = SetOption(@, u.selectedOption),
                   !.integerAnswer = u.integerAnswer,
                   !.status = u.status]

\* Is there an answers row (a, q)?
HasRow(a, q) == a \in DOMAIN answers /\ q \in DOMAIN answers[a]

\* Lines 103-120: the request arrives and every update is issued.
SyncAnswers(p, a, payload) ==
  /\ procs[p].op = "idle"
  /\ budget.ops > 0
  /\ budget' = [budget EXCEPT !.ops = @ - 1]
  /\ IF payload = <<>>
     THEN Respond(p, 200)
     ELSE procs' = [procs EXCEPT ![p] =
            [Idle EXCEPT !.op = "sync", !.pc = "syncWrite", !.attemptId = a,
                         !.payload = payload,
                         !.updates = [i \in 1..Len(payload) |-> SyncUpdate(payload[i])],
                         !.pending = 1..Len(payload)]]
  /\ UNCHANGED <<dbVars, scoreVars>>

\* One of the updates of line 107 reaches the database. An update of a row
\* that does not exist rejects; Promise.all (line 122) settles when every
\* update has, and the handler answers 200, or 500 if one of them rejected.
SyncWrite(p, i) ==
  /\ procs[p].pc = "syncWrite"
  /\ i \in procs[p].pending
  /\ LET me == procs[p]
         u == me.updates[i]
         ok == HasRow(me.attemptId, u.questionId)
         left == me.pending \ {i}
         bad == me.failed \/ ~ok
     IN /\ answers' = IF ok
                      THEN [answers EXCEPT ![me.attemptId][u.questionId] =
                              ApplyUpdate(@, u)]
                      ELSE answers
        /\ IF left = {}
           THEN Respond(p, IF bad THEN 500 ELSE 200)
           ELSE procs' = [procs EXCEPT ![p].pending = left, ![p].failed = bad]
  /\ UNCHANGED <<tests, attempts, nextId, now, budget, scoreVars>>

(***************************************************************************)
(* submitTest                                                              *)
(***************************************************************************)
\* Lines 166-170: the question of the attempt's test with this id, if any.
KnownQuestion(q) == q \in Questions

\* Lines 172-201: the element pushed to updatedAnswers for one answer.
ScoredUpdate(q, e) ==
  LET r == ScoreAnswer(q, e)
  IN [questionId |-> e.questionId, selectedOption |-> e.selectedOption,
      integerAnswer |-> StoredInteger(e.integerAnswer), status |-> e.status,
      scored |-> TRUE, isCorrect |-> r.isCorrect, marksAwarded |-> r.marksAwarded]

\* A loop that ends at the first answer of an unknown question.
RECURSIVE UpdatedAnswersUntilUnknown(_)
UpdatedAnswersUntilUnknown(payload) ==
  IF payload = <<>>
  THEN <<>>
  ELSE IF KnownQuestion(Head(payload).questionId)
       THEN <<ScoredUpdate(Catalog[Head(payload).questionId], Head(payload))>>
              \o UpdatedAnswersUntilUnknown(Tail(payload))
       ELSE <<>>

\* Lines 161-202: updatedAnswers, the answers of unknown questions skipped.
RECURSIVE UpdatedAnswers(_)
UpdatedAnswers(payload) ==
  IF payload = <<>>
  THEN <<>>
  ELSE IF KnownQuestion(Head(payload).questionId)
       THEN <<ScoredUpdate(Catalog[Head(payload).questionId], Head(payload))>> \o UpdatedAnswers(Tail(payload))
       ELSE UpdatedAnswers(Tail(payload))

\* Line 191: totalMarks, the sum of marksAwarded over updatedAnswers.
RECURSIVE SumMarks(_)
SumMarks(us) ==
  IF us = <<>> THEN 0 ELSE Head(us).marksAwarded + SumMarks(Tail(us))

\* Lines 137-221: findUnique, then scoring, then every answer update issued.
\* wasCompleted is the isCompleted of the attempt read at line 137, which the
\* handler never looks at.
SubmitFind(p, a, payload, op) ==
  IF a \notin DOMAIN attempts
  THEN Respond(p, 404)
  ELSE LET us == UpdatedAnswers(payload)
       IN procs' = [procs EXCEPT ![p] =
            [Idle EXCEPT !.op = op,
                         !.pc = IF us = <<>> THEN "attemptUpdate" ELSE "answerWrite",
                         !.attemptId = a, !.payload = payload,
                         !.wasCompleted = attempts[a].isCompleted, !.updates = us,
                         !.pending = 1..Len(us), !.total = SumMarks(us)]]

\* A submit request arrives: lines 134-221.
SubmitTest(p, a, payload) ==
  /\ procs[p].op = "idle"
  /\ budget.ops > 0
  /\ budget' = [budget EXCEPT !.ops = @ - 1]
  /\ SubmitFind(p, a, payload, "submit")
  /\ UNCHANGED <<dbVars, scoreVars>>

\* One of the updates of line 206 reaches the database; line 223 waits for
\* all of them, and a rejected one sends the handler to line 257-260.
SubmitAnswerWrite(p, i) ==
  /\ procs[p].pc = "answerWrite"
  /\ i \in procs[p].pending
  /\ LET me == procs[p]
         u == me.updates[i]
         ok == HasRow(me.attemptId, u.questionId)
         left == me.pending \ {i}
         bad == me.failed \/ ~ok
     IN /\ answers' = IF ok
                      THEN [answers EXCEPT ![me.attemptId][u.questionId] =
                              ApplyUpdate(@, u)]
                      ELSE answers
        /\ IF left = {}
           THEN IF bad
                THEN Respond(p, 500)
                ELSE procs' = [procs EXCEPT ![p].pending = left,
                                            ![p].pc = "attemptUpdate"]
           ELSE procs' = [procs EXCEPT ![p].pending = left, ![p].failed = bad]
  /\ UNCHANGED <<tests, attempts, nextId, now, budget, scoreVars>>

\* Lines 226-245: mark the attempt completed.
SubmitAttemptUpdate(p) ==
  /\ procs[p].pc = "attemptUpdate"
  /\ LET a == procs[p].attemptId
     IN IF a \in DOMAIN attempts
        THEN /\ attempts' = [attempts EXCEPT ![a].isCompleted = TRUE,
                                             ![a].totalMarks = procs[p].total,
                                             ![a].endTime = now]
             /\ now' = now + 1
             /\ procs' = [procs EXCEPT ![p].pc = "testUpdate",
                                       ![p].testId = attempts[a].testId]
        ELSE /\ Respond(p, 500)
             /\ UNCHANGED <<attempts, now>>
  /\ UNCHANGED <<tests, answers, nextId, budget, scoreVars>>

\* A submitTest that answers without the test update of lines 249-252.
SubmitTestUpdateKeepsLive(p) ==
  /\ procs[p].pc = "testUpdate"
  /\ Respond(p, 200)
  /\ UNCHANGED <<dbVars, budget, scoreVars>>

\* Lines 249-256: the test stops being live.
SubmitTestUpdate(p) ==
  /\ procs[p].pc = "testUpdate"
  /\ tests' = [tests EXCEPT ![procs[p].testId].isLive = FALSE]
  /\ Respond(p, 200)
  /\ UNCHANGED <<attempts, answers, nextId, now, budget, scoreVars>>

\* A statement of submitTest fails with a storage error and changes nothing:
\* one answer update of line 206, or the attempt update of line 226.
SubmitStorageError(p) ==
  /\ budget.faults > 0
  /\ budget' = [budget EXCEPT !.faults = @ - 1]
  /\ \/ /\ procs[p].pc = "answerWrite"
        /\ \E i \in procs[p].pending :
             LET left == procs[p].pending \ {i}
             IN IF left = {}
                THEN Respond(p, 500)
                ELSE procs' = [procs EXCEPT ![p].pending = left,
                                            ![p].failed = TRUE]
     \/ /\ procs[p].pc = "attemptUpdate"
        /\ Respond(p, 500)
  /\ UNCHANGED <<dbVars, scoreVars>>

(***************************************************************************)
(* updateWarningCount                                                      *)
(***************************************************************************)
\* An updateWarningCount that forces the submission one warning late:
\* `attempt.warningCount > 5` at line 278.
UpdateWarningCountLate(p, a) ==
  /\ procs[p].op = "idle"
  /\ budget.warnings > 0
  /\ budget' = [budget EXCEPT !.warnings = @ - 1]
  /\ IF a \notin DOMAIN attempts
     THEN /\ Respond(p, 500)
          /\ UNCHANGED attempts
     ELSE /\ attempts' = [attempts EXCEPT ![a].warningCount = @ + 1]
          /\ IF attempts[a].warningCount + 1 > WarningThreshold
             THEN procs' = [procs EXCEPT ![p] =
                    [Idle EXCEPT !.op = "warning", !.pc = "findMany",
                                 !.attemptId = a]]
             ELSE Respond(p, 200)
  /\ UNCHANGED <<tests, answers, nextId, now, scoreVars>>

\* An updateWarningCount that writes back the count a client keeps instead
\* of incrementing the stored one: `warningCount: 1` at line 271.
UpdateWarningCountSet(p, a) ==
  /\ procs[p].op = "idle"
  /\ budget.warnings > 0
  /\ budget' = [budget EXCEPT !.warnings = @ - 1]
  /\ IF a \notin DOMAIN attempts
     THEN /\ Respond(p, 500)
          /\ UNCHANGED attempts
     ELSE /\ attempts' = [attempts EXCEPT ![a].warningCount = 1]
          /\ Respond(p, 200)
  /\ UNCHANGED <<tests, answers, nextId, now, scoreVars>>

\* Lines 268-288: the atomic increment; an update of a missing attempt throws.
UpdateWarningCount(p, a) ==
  /\ procs[p].op = "idle"
  /\ budget.warnings > 0
  /\ budget' = [budget EXCEPT !.warnings = @ - 1]
  /\ IF a \notin DOMAIN attempts
     THEN /\ Respond(p, 500)
          /\ UNCHANGED attempts
     ELSE /\ attempts' = [attempts EXCEPT ![a].warningCount = @ + 1]
          /\ IF attempts[a].warningCount + 1 >= WarningThreshold
             THEN procs' = [procs EXCEPT ![p] =
                    [Idle EXCEPT !.op = "warning", !.pc = "findMany",
                                 !.attemptId = a]]
             ELSE Respond(p, 200)
  /\ UNCHANGED <<tests, answers, nextId, now, scoreVars>>

\* An updateWarningCount that hands submitTest the rows without their status.
CurrentAnswersNoStatus(a) ==
  IF a \in DOMAIN answers
  THEN LET qs == SelectSeq(RowOrder, LAMBDA q : q \in DOMAIN answers[a])
       IN [i \in 1..Len(qs) |->
            Entry(qs[i], answers[a][qs[i]].selectedOption,
                  answers[a][qs[i]].integerAnswer, "NOT_ANSWERED")]
  ELSE <<>>

\* Lines 280-282: the attempt's stored answers become the payload.
CurrentAnswers(a) ==
  IF a \in DOMAIN answers
  THEN LET qs == SelectSeq(RowOrder, LAMBDA q : q \in DOMAIN answers[a])
       IN [i \in 1..Len(qs) |->
            Entry(qs[i], answers[a][qs[i]].selectedOption,
                  answers[a][qs[i]].integerAnswer, answers[a][qs[i]].status)]
  ELSE <<>>

WarningFindMany(p) ==
  /\ procs[p].pc = "findMany"
  /\ procs' = [procs EXCEPT ![p].pc = "findUnique",
                            ![p].payload = CurrentAnswers(procs[p].attemptId)]
  /\ UNCHANGED <<dbVars, budget, scoreVars>>

\* Line 284: submitTest is called with that payload.
WarningSubmit(p) ==
  /\ procs[p].pc = "findUnique"
  /\ SubmitFind(p, procs[p].attemptId, procs[p].payload, "warning")
  /\ UNCHANGED <<dbVars, budget, scoreVars>>

(***************************************************************************)
(* updateQuestionTime and syncTimeData                                     *)
(***************************************************************************)
\* The timeSpent values a body carries: numbers, a numeric string, nothing.
TimeInputs == {JsNum(-1), JsNum(0), JsNum(1), JsStr(1), IntUndef}
\* The questionId values of an updateQuestionTime body; "" is a missing one.
TimeQuestionIds == {"q1", "q3", ""}
TimeActions == {"visit", "update"}
\* A questionId that names no row of `questions`.
UnknownQuestion == "q9"

\* Line 919: typeof timeSpent === 'number'.
IsNumber(v) == v[1] = "number"

\* updateQuestionTime, lines 914-934: validation, then findUnique of the
\* answer row; 400 on invalid input, 404 when there is no row.
UpdateQuestionTime(p, a, q, v, action) ==
  /\ procs[p].op = "idle"
  /\ budget.times > 0
  /\ budget' = [budget EXCEPT !.times = @ - 1]
  /\ IF q = "" \/ ~IsNumber(v) \/ v[2] < 0
     THEN Respond(p, 400)
     ELSE IF ~HasRow(a, q)
     THEN Respond(p, 404)
     ELSE procs' = [procs EXCEPT ![p] =
            [Idle EXCEPT !.op = "time", !.pc = "timeWrite", !.attemptId = a,
                         !.time = [questionId |-> q, timeSpent |-> v[2],
                                   action |-> action,
                                   read |-> [c \in DOMAIN TimeColumnDefaults |->
                                               answers[a][q][c]]]]]
  /\ UNCHANGED <<dbVars, scoreVars>>

\* A column that updateData does not name.
NotNamed == -1

\* An updateData that counts a visit whatever the action.
UpdateDataCountsEveryCall(t) ==
  [timeSpent |-> t.read.timeSpent + t.timeSpent,
   lastVisitTime |-> now,
   firstVisitTime |-> IF t.read.firstVisitTime = 0 THEN now ELSE NotNamed,
   visitCount |-> IF t.read.firstVisitTime = 0 THEN 1 ELSE t.read.visitCount + 1]

\* Lines 936-949: updateData, computed from the row read at line 925.
UpdateData(t) ==
  [timeSpent |-> t.read.timeSpent + t.timeSpent,
   lastVisitTime |-> now,
   firstVisitTime |-> IF t.read.firstVisitTime = 0 THEN now ELSE NotNamed,
   visitCount |-> IF t.read.firstVisitTime = 0
                  THEN 1
                  ELSE IF t.action = "visit" THEN t.read.visitCount + 1 ELSE NotNamed]

\* Lines 952-971: the update of the answer row with updateData; a column
\* updateData does not name keeps its value. The update of a row that is gone
\* throws and the handler answers 500.
TimeWrite(p) ==
  /\ procs[p].pc = "timeWrite"
  /\ LET me == procs[p]
         a == me.attemptId
         q == me.time.questionId
         d == UpdateData(me.time)
     IN IF HasRow(a, q)
        THEN /\ answers' = [answers EXCEPT ![a][q] =
                  [@ EXCEPT !.timeSpent = d.timeSpent,
                            !.lastVisitTime = d.lastVisitTime,
                            !.firstVisitTime =
                               IF d.firstVisitTime = NotNamed THEN @ ELSE d.firstVisitTime,
                            !.visitCount =
                               IF d.visitCount = NotNamed THEN @ ELSE d.visitCount]]
             /\ Respond(p, 200)
        ELSE /\ Respond(p, 500)
             /\ UNCHANGED answers
  /\ UNCHANGED <<tests, attempts, nextId, now, budget, scoreVars>>

\* The bodies of syncTimeData requests: no questionTimes at all, one
\* question, a question of the test and one of another test, entries that
\* are all skipped, a question that does not exist, and a negative entry
\* beside a positive one.
TimeBodies ==
  {[valid |-> FALSE, times |-> <<>>],
   [valid |-> TRUE, times |-> ("q1" :> JsNum(1))],
   [valid |-> TRUE, times |-> ("q1" :> JsNum(1)) @@ ("q3" :> JsNum(1))],
   [valid |-> TRUE, times |-> ("q1" :> JsStr(1)) @@ ("q2" :> JsNum(0))],
   [valid |-> TRUE, times |-> (UnknownQuestion :> JsNum(1))],
   [valid |-> TRUE, times |-> ("q1" :> JsNum(1)) @@ ("q2" :> JsNum(-1))]}

\* Line 989: the entries that become an upsert.
Upserts(body) ==
  {q \in DOMAIN body.times : IsNumber(body.times[q]) /\ body.times[q][2] > 0}

\* A `create` branch that does not name visitCount.
CreatedByUpsertNoVisit(delta) ==
  [NewAnswer EXCEPT !.timeSpent = delta,
                    !.firstVisitTime = now, !.lastVisitTime = now]

\* Lines 1005-1012: the row the `create` branch of the upsert inserts; the
\* columns it does not name take their defaults.
CreatedByUpsert(delta) ==
  [NewAnswer EXCEPT !.timeSpent = delta, !.visitCount = 1,
                    !.firstVisitTime = now, !.lastVisitTime = now]

\* syncTimeData, lines 977-1025: the upserts run in one transaction. An
\* insert needs its attempt and its question to exist (foreign keys of
\* migration.sql lines 89 and 92); if one fails nothing is written and the
\* handler answers 500.
SyncTimeData(p, a, body) ==
  /\ procs[p].op = "idle"
  /\ budget.times > 0
  /\ budget' = [budget EXCEPT !.times = @ - 1]
  /\ IF ~body.valid
     THEN /\ Respond(p, 400)
          /\ UNCHANGED answers
     ELSE LET qs == Upserts(body)
              inserts == {q \in qs : ~HasRow(a, q)}
          IN IF inserts # {} /\ (a \notin DOMAIN attempts
                                 \/ ~(inserts \subseteq Questions \cup OtherQuestions))
             THEN /\ Respond(p, 500)
                  /\ UNCHANGED answers
             ELSE /\ answers' =
                       IF qs = {}
                       THEN answers
                       ELSE [answers EXCEPT ![a] =
                              [q \in DOMAIN answers[a] \cup qs |->
                                 IF q \notin DOMAIN answers[a]
                                 THEN CreatedByUpsert(body.times[q][2])
                                 ELSE IF q \in qs
                                 THEN [answers[a][q] EXCEPT
                                         !.timeSpent = @ + body.times[q][2],
                                         !.lastVisitTime = now]
                                 ELSE answers[a][q]]]
                  /\ Respond(p, 200)
  /\ UNCHANGED <<tests, attempts, nextId, now, scoreVars>>

(***************************************************************************)
(* The resume handshake and toggleTestLive                                 *)
(***************************************************************************)
\* requestResume, lines 384-394: one update; an update of a missing attempt
\* throws and lines 395-398 answer 500.
RequestResume(p, a) ==
  /\ procs[p].op = "idle"
  /\ budget.resumes > 0
  /\ budget' = [budget EXCEPT !.resumes = @ - 1]
  /\ IF a \in DOMAIN attempts
     THEN /\ attempts' = [attempts EXCEPT ![a].needsResume = TRUE,
                                          ![a].resumeRequestedAt = now]
          /\ Respond(p, 200)
     ELSE /\ Respond(p, 500)
          /\ UNCHANGED attempts
  /\ UNCHANGED <<tests, answers, nextId, now, scoreVars>>

\* allowResume, lines 404-414: one update; lines 415-418 answer 500 when the
\* attempt is missing.
AllowResume(p, a) ==
  /\ procs[p].op = "idle"
  /\ budget.resumes > 0
  /\ budget' = [budget EXCEPT !.resumes = @ - 1]
  /\ IF a \in DOMAIN attempts
     THEN /\ attempts' = [attempts EXCEPT ![a].canResume = TRUE,
                                          ![a].needsResume = FALSE]
          /\ Respond(p, 200)
     ELSE /\ Respond(p, 500)
          /\ UNCHANGED attempts
  /\ UNCHANGED <<tests, answers, nextId, now, scoreVars>>

\* The values a toggleTestLive body carries as isLive: the booleans, the
\* strings that spell them, and nothing.
LiveInputs == {"true", "'true'", "false", "'false'", OptUndef}

\* testController.js line 180: isLive === 'true' || isLive === true.
LiveValue(v) == v \in {"true", "'true'"}

\* toggleTestLive, testController.js lines 171-192: one update. The update of
\* a missing test throws a known request error, which retryDatabaseOperation
\* and asyncHandler take for a connection error: the update is tried again,
\* fails the same way, and the answer is 503.
ToggleTestLive(p, t, v) ==
  /\ procs[p].op = "idle"
  /\ budget.toggles > 0
  /\ budget' = [budget EXCEPT !.toggles = @ - 1]
  /\ IF t \in DOMAIN tests
     THEN /\ tests' = [tests EXCEPT ![t].isLive = LiveValue(v)]
          /\ Respond(p, 200)
     ELSE /\ Respond(p, 503)
          /\ UNCHANGED tests
  /\ UNCHANGED <<attempts, answers, nextId, now, scoreVars>>

\* A statement of startTestAttempt fails with a storage error and changes
\* nothing: the delete of line 52 or the create of line 58; lines 94-97
\* answer 500.
StartStorageError(p) ==
  /\ budget.faults > 0
  /\ budget' = [budget EXCEPT !.faults = @ - 1]
  /\ procs[p].pc \in {"delete", "create"}
  /\ Respond(p, 500)
  /\ UNCHANGED <<dbVars, scoreVars>>

(***************************************************************************)
(* getResumeRequests                                                       *)
(***************************************************************************)
\* The `where` of lines 425-429.
PendingResume ==
  {a \in DOMAIN attempts : /\ attempts[a].needsResume
                           /\ ~attempts[a].canResume
                           /\ ~attempts[a].isCompleted}

\* The rows of a set in an order that `orderBy resumeRequestedAt desc`
\* (lines 433-435) allows; rows with equal timestamps come in any order.
OrderedByRequest(as) ==
  {ls \in [1..Cardinality(as) -> as] :
     /\ \A i, j \in DOMAIN ls : ls[i] = ls[j] => i = j
     /\ \A i, j \in DOMAIN ls :
          i < j => attempts[ls[i]].resumeRequestedAt
                     >= attempts[ls[j]].resumeRequestedAt}

\* getResumeRequests, lines 422-443: one findMany, answered as it is.
GetResumeRequests(p) ==
  /\ procs[p].op = "idle"
  /\ budget.lists > 0
  /\ budget' = [budget EXCEPT !.lists = @ - 1]
  /\ \E ls \in OrderedByRequest(PendingResume) :
       procs' = [procs EXCEPT ![p] = [Idle EXCEPT !.listed = ls, !.resp = 200]]
  /\ UNCHANGED <<dbVars, scoreVars>>

\* Time passes between two requests (the `new Date()` of lines 61, 228 and
\* 390 is later in the later request).
Tick ==
  /\ budget.ticks > 0
  /\ budget' = [budget EXCEPT !.ticks = @ - 1]
  /\ now' = now + 1
  /\ UNCHANGED <<tests, attempts, answers, nextId, procs, scoreVars>>

(***************************************************************************)
(* The error handler: retryDatabaseOperation under asyncHandler            *)
(***************************************************************************)
\* The errors an operation can throw: Prisma cannot connect, a request error
\* for an unreachable server (P1001), a timeout (P1008), a unique constraint
\* (P2002) or a missing record (P2025), a query the client rejects, a socket
\* error, an error whose message speaks of a timeout, and a TypeError.
Errors ==
  {Err("PrismaClientInitializationError", "", {"Can't reach database server"}),
   Err("PrismaClientKnownRequestError", "P1001", {"Can't reach database server"}),
   Err("PrismaClientKnownRequestError", "P1008", {"timeout"}),
   Err("PrismaClientKnownRequestError", "P2002", {}),
   Err("PrismaClientKnownRequestError", "P2025", {}),
   Err("PrismaClientValidationError", "", {}),
   Err("Error", "ECONNRESET", {}),
   Err("Error", "", {"timeout"}),
   Err("TypeError", "", {})}

\* Lines 10-21.
isDatabaseConnectionError(error) ==
  \/ error.name = "PrismaClientInitializationError"
  \/ error.name = "PrismaClientKnownRequestError"
  \/ "Can't reach database server" \in error.phrases
  \/ "Connection refused" \in error.phrases
  \/ "timeout" \in error.phrases
  \/ error.code \in {"P1001", "P1008", "P1017"}

\* Lines 28-38.
isNetworkError(error) ==
  \/ error.code \in {"ENOTFOUND", "ECONNREFUSED", "ETIMEDOUT", "ECONNRESET"}
  \/ "network" \in error.phrases
  \/ "internet" \in error.phrases
  \/ "DNS" \in error.phrases

\* Math.pow(2, n) for a natural n.
RECURSIVE Pow2(_)
Pow2(n) == IF n = 0 THEN 1 ELSE 2 * Pow2(n - 1)

\* Lines 87-92: the call arrives and the loop invokes the operation for the
\* first time.
RetryStart(maxRetries, baseDelay) ==
  /\ retry.pc = "idle"
  /\ retry.maxRetries = 0
  /\ retry' = [NoRetry EXCEPT !.pc = "call", !.maxRetries = maxRetries,
                              !.baseDelay = baseDelay, !.attempt = 1,
                              !.calls = 1]
  /\ UNCHANGED <<dbVars, procs, budget, sq, sa, sres, sbody, authored>>

\* Line 92: the operation resolves and its result is returned.
OperationReturns ==
  /\ retry.pc = "call"
  /\ retry' = [retry EXCEPT !.pc = "returned"]
  /\ UNCHANGED <<dbVars, procs, budget, sq, sa, sres, sbody, authored>>

\* A loop that sets the timer after the last attempt too.
OperationThrowsNoBreak(error) ==
  /\ retry.pc = "call"
  /\ IF ~isDatabaseConnectionError(error) /\ ~isNetworkError(error)
     THEN retry' = [retry EXCEPT !.pc = "thrown", !.lastError = error,
                                 !.thrown = error]
     ELSE retry' = [retry EXCEPT
                      !.pc = "wait", !.lastError = error,
                      !.waited = Append(@, retry.baseDelay * Pow2(retry.attempt - 1))]
  /\ UNCHANGED <<dbVars, procs, budget, sq, sa, sres, sbody, authored>>

\* Lines 93-108: the operation rejects with `error`. An error that is
\* neither a connection nor a network error is rethrown; the last attempt
\* leaves the loop and line 112 throws lastError; otherwise the timer of
\* line 108 is set.
OperationThrows(error) ==
  /\ retry.pc = "call"
  /\ IF ~isDatabaseConnectionError(error) /\ ~isNetworkError(error)
     THEN retry' = [retry EXCEPT !.pc = "thrown", !.lastError = error,
                                 !.thrown = error]
     ELSE IF retry.attempt = retry.maxRetries
     THEN retry' = [retry EXCEPT !.pc = "thrown", !.lastError = error,
                                 !.thrown = error]
     ELSE retry' = [retry EXCEPT
                      !.pc = "wait", !.lastError = error,
                      !.waited = Append(@, retry.baseDelay * Pow2(retry.attempt - 1))]
  /\ UNCHANGED <<dbVars, procs, budget, sq, sa, sres, sbody, authored>>

\* Lines 108, 90 and 92: the timer fires and the next iteration invokes the
\* operation.
RetryAgain ==
  /\ retry.pc = "wait"
  /\ retry' = [retry EXCEPT !.pc = "call", !.attempt = @ + 1, !.calls = @ + 1]
  /\ UNCHANGED <<dbVars, procs, budget, sq, sa, sres, sbody, authored>>

\* handleDatabaseError, lines 54-77: the status for an error.
handleDatabaseError(error) ==
  IF isDatabaseConnectionError(error) THEN 503
  ELSE IF isNetworkError(error) THEN 503
  ELSE 500

\* asyncHandler, lines 122-136, around a handler that awaits
\* retryDatabaseOperation: the result is answered by the handler (200), a
\* thrown error by handleDatabaseError or as 500.
AsyncHandlerAnswers ==
  /\ retry.pc \in {"returned", "thrown"}
  /\ retry.resp = 0
  /\ retry' = [retry EXCEPT !.resp =
                 IF retry.pc = "returned"
                 THEN 200
                 ELSE IF isDatabaseConnectionError(retry.thrown)
                         \/ isNetworkError(retry.thrown)
                      THEN handleDatabaseError(retry.thrown)
                      ELSE 500]
  /\ UNCHANGED <<dbVars, procs, budget, sq, sa, sres, sbody, authored>>

(***************************************************************************)
(* Spec: starts, syncs and submits, two requests at a time, with storage   *)
(* errors.                                                                 *)
(***************************************************************************)
Next ==
  \/ \E p \in Procs, t \in TestIds \cup {NoTest}, c \in Candidates :
       StartTestAttempt(p, t, c)
  \/ \E p \in Procs : StartFindFirst(p)
  \/ \E p \in Procs : StartDelete(p)
  \/ \E p \in Procs : StartCreate(p)
  \/ \E p \in Procs, a \in AttemptIds, b \in SyncPayloads : SyncAnswers(p, a, b)
  \/ \E p \in Procs, i \in 1..2 : SyncWrite(p, i)
  \/ \E p \in Procs, a \in AttemptIds, b \in SubmitPayloads : SubmitTest(p, a, b)
  \/ \E p \in Procs, i \in 1..2 : SubmitAnswerWrite(p, i)
  \/ \E p \in Procs : SubmitAttemptUpdate(p)
  \/ \E p \in Procs : SubmitTestUpdate(p)
  \/ \E p \in Procs : SubmitStorageError(p)

Spec == Init /\ [][Next]_vars

(***************************************************************************)
(* SpecWarning: the same handlers with updateWarningCount requests, and    *)
(* no storage errors.                                                      *)
(***************************************************************************)
InitWarning ==
  /\ tests = [t \in TestIds |-> [isLive |-> TRUE]]
  /\ attempts = <<>>
  /\ answers = <<>>
  /\ nextId = 1
  /\ now = 1
  /\ procs = [p \in Procs |-> Idle]
  /\ budget = [NoBudget EXCEPT !.ops = MaxWarningOps, !.warnings = MaxWarnings]
  /\ sq = [questionType |-> "MCQ", correctOption |-> OptNull,
           correctInteger |-> IntNull,
           marks |-> DefaultMarks, negativeMarks |-> DefaultNegativeMarks]
  /\ sa = [questionId |-> "q1", selectedOption |-> OptNull,
           integerAnswer |-> IntNull, status |-> "NOT_VISITED"]
  /\ sres = NotScored
  /\ sbody = NoBody
  /\ retry = NoRetry
  /\ authored = NoQuestion

NextWarning ==
  \/ \E p \in Procs, t \in TestIds \cup {NoTest}, c \in Candidates :
       StartTestAttempt(p, t, c)
  \/ \E p \in Procs : StartFindFirst(p)
  \/ \E p \in Procs : StartDelete(p)
  \/ \E p \in Procs : StartCreate(p)
  \/ \E p \in Procs, a \in AttemptIds, b \in SyncPayloads : SyncAnswers(p, a, b)
  \/ \E p \in Procs, i \in 1..2 : SyncWrite(p, i)
  \/ \E p \in Procs, a \in AttemptIds, b \in SubmitPayloads : SubmitTest(p, a, b)
  \/ \E p \in Procs, i \in 1..2 : SubmitAnswerWrite(p, i)
  \/ \E p \in Procs : SubmitAttemptUpdate(p)
  \/ \E p \in Procs : SubmitTestUpdate(p)
  \/ \E p \in Procs, a \in AttemptIds : UpdateWarningCount(p, a)
  \/ \E p \in Procs : WarningFindMany(p)
  \/ \E p \in Procs : WarningSubmit(p)

SpecWarning == InitWarning /\ [][NextWarning]_vars


(***************************************************************************)
(* SpecResume: starts with the resume handshake and storage errors in      *)
(* startTestAttempt.                                                       *)
(***************************************************************************)
InitResume ==
  /\ tests = [t \in TestIds |-> [isLive |-> TRUE]]
  /\ attempts = <<>>
  /\ answers = <<>>
  /\ nextId = 1
  /\ now = 1
  /\ procs = [p \in Procs |-> Idle]
  /\ budget = [NoBudget EXCEPT !.ops = MaxResumeOps, !.resumes = MaxResumes,
                               !.faults = MaxFaults]
  /\ sq = [questionType |-> "MCQ", correctOption |-> OptNull,
           correctInteger |-> IntNull,
           marks |-> DefaultMarks, negativeMarks |-> DefaultNegativeMarks]
  /\ sa = [questionId |-> "q1", selectedOption |-> OptNull,
           integerAnswer |-> IntNull, status |-> "NOT_VISITED"]
  /\ sres = NotScored
  /\ sbody = NoBody
  /\ retry = NoRetry
  /\ authored = NoQuestion

NextResume ==
  \/ \E p \in Procs, t \in TestIds \cup {NoTest}, c \in Candidates :
       StartTestAttempt(p, t, c)
  \/ \E p \in Procs : StartFindFirst(p)
  \/ \E p \in Procs : StartDelete(p)
  \/ \E p \in Procs : StartCreate(p)
  \/ \E p \in Procs : StartStorageError(p)
  \/ \E p \in Procs, a \in AttemptIds : RequestResume(p, a)
  \/ \E p \in Procs, a \in AttemptIds : AllowResume(p, a)

SpecResume == InitResume /\ [][NextResume]_vars

(***************************************************************************)
(* SpecTime: starts and answer syncs with the two time tracking handlers;  *)
(* the database also holds a second test, which is not live.               *)
(***************************************************************************)
InitTime ==
  /\ tests = [t \in TestIds \cup {OtherTest} |-> [isLive |-> t \in TestIds]]
  /\ attempts = <<>>
  /\ answers = <<>>
  /\ nextId = 1
  /\ now = 1
  /\ procs = [p \in Procs |-> Idle]
  /\ budget = [NoBudget EXCEPT !.ops = MaxTimeOps, !.times = MaxTimes]
  /\ sq = [questionType |-> "MCQ", correctOption |-> OptNull,
           correctInteger |-> IntNull,
           marks |-> DefaultMarks, negativeMarks |-> DefaultNegativeMarks]
  /\ sa = [questionId |-> "q1", selectedOption |-> OptNull,
           integerAnswer |-> IntNull, status |-> "NOT_VISITED"]
  /\ sres = NotScored
  /\ sbody = NoBody
  /\ retry = NoRetry
  /\ authored = NoQuestion

NextTime ==
  \/ \E p \in Procs, t \in TestIds \cup {OtherTest, NoTest}, c \in Candidates :
       StartTestAttempt(p, t, c)
  \/ \E p \in Procs : StartFindFirst(p)
  \/ \E p \in Procs : StartDelete(p)
  \/ \E p \in Procs : StartCreate(p)
  \/ \E p \in Procs, a \in AttemptIds, b \in SyncPayloads : SyncAnswers(p, a, b)
  \/ \E p \in Procs, i \in 1..2 : SyncWrite(p, i)
  \/ \E p \in Procs, a \in AttemptIds, q \in TimeQuestionIds,
        v \in TimeInputs, action \in TimeActions :
       UpdateQuestionTime(p, a, q, v, action)
  \/ \E p \in Procs : TimeWrite(p)
  \/ \E p \in Procs, a \in AttemptIds, b \in TimeBodies : SyncTimeData(p, a, b)

SpecTime == InitTime /\ [][NextTime]_vars

(***************************************************************************)
(* SpecLive: starts and submits with toggleTestLive.                       *)
(***************************************************************************)
InitLive ==
  /\ tests = [t \in TestIds |-> [isLive |-> TRUE]]
  /\ attempts = <<>>
  /\ answers = <<>>
  /\ nextId = 1
  /\ now = 1
  /\ procs = [p \in Procs |-> Idle]
  /\ budget = [NoBudget EXCEPT !.ops = MaxLiveOps, !.toggles = MaxToggles]
  /\ sq = [questionType |-> "MCQ", correctOption |-> OptNull,
           correctInteger |-> IntNull,
           marks |-> DefaultMarks, negativeMarks |-> DefaultNegativeMarks]
  /\ sa = [questionId |-> "q1", selectedOption |-> OptNull,
           integerAnswer |-> IntNull, status |-> "NOT_VISITED"]
  /\ sres = NotScored
  /\ sbody = NoBody
  /\ retry = NoRetry
  /\ authored = NoQuestion

NextLive ==
  \/ \E p \in Procs, t \in TestIds \cup {NoTest}, c \in Candidates :
       StartTestAttempt(p, t, c)
  \/ \E p \in Procs : StartFindFirst(p)
  \/ \E p \in Procs : StartDelete(p)
  \/ \E p \in Procs : StartCreate(p)
  \/ \E p \in Procs, a \in AttemptIds, b \in LiveSubmitPayloads :
       SubmitTest(p, a, b)
  \/ \E p \in Procs, i \in 1..2 : SubmitAnswerWrite(p, i)
  \/ \E p \in Procs : SubmitAttemptUpdate(p)
  \/ \E p \in Procs : SubmitTestUpdate(p)
  \/ \E p \in Procs, t \in TestIds \cup {NoTest}, v \in LiveInputs :
       ToggleTestLive(p, t, v)

SpecLive == InitLive /\ [][NextLive]_vars

(***************************************************************************)
(* SpecEquiv: an attempt with four warnings and synced answers is          *)
(* submitted, either by a submitTest whose body carries the stored rows or *)
(* by the fifth updateWarningCount.                                        *)
(***************************************************************************)
\* The answer rows syncAnswers can leave for q1 and q2 before a submission.
PersistedRows ==
  {[q \in Questions |-> IF q = "q1" THEN [NewAnswer EXCEPT !.selectedOption = s,
                                                          !.status = st1]
                                    ELSE [NewAnswer EXCEPT !.integerAnswer = i,
                                                          !.status = st2]] :
     s \in {OptNull, ""} \cup Options, st1 \in AnswerStatus,
     i \in IntColumn, st2 \in AnswerStatus}

\* The body of a submitTest whose answers are the stored rows of attempt a.
RowsAsBody(a) ==
  IF a \in DOMAIN answers
  THEN LET qs == SelectSeq(RowOrder, LAMBDA q : q \in DOMAIN answers[a])
       IN [i \in 1..Len(qs) |->
            [questionId |-> qs[i],
             selectedOption |-> answers[a][qs[i]].selectedOption,
             integerAnswer |-> answers[a][qs[i]].integerAnswer,
             status |-> answers[a][qs[i]].status]]
  ELSE <<>>

InitEquiv ==
  /\ tests = [t \in TestIds |-> [isLive |-> TRUE]]
  /\ attempts = (1 :> [NewAttempt("t1", "alice") EXCEPT
                         !.warningCount = WarningThreshold - 1])
  /\ \E rows \in PersistedRows : answers = (1 :> rows)
  /\ nextId = 2
  /\ now = 1
  /\ procs = [p \in Procs |-> Idle]
  /\ \E k \in 0..MaxEquivRequests :
       budget = [NoBudget EXCEPT !.ops = k, !.warnings = MaxEquivRequests - k]
  /\ sq = [questionType |-> "MCQ", correctOption |-> OptNull,
           correctInteger |-> IntNull,
           marks |-> DefaultMarks, negativeMarks |-> DefaultNegativeMarks]
  /\ sa = [questionId |-> "q1", selectedOption |-> OptNull,
           integerAnswer |-> IntNull, status |-> "NOT_VISITED"]
  /\ sres = NotScored
  /\ sbody = NoBody
  /\ retry = NoRetry
  /\ authored = NoQuestion

NextEquiv ==
  \/ \E p \in Procs, a \in AttemptIds : SubmitTest(p, a, RowsAsBody(a))
  \/ \E p \in Procs, i \in 1..2 : SubmitAnswerWrite(p, i)
  \/ \E p \in Procs : SubmitAttemptUpdate(p)
  \/ \E p \in Procs : SubmitTestUpdate(p)
  \/ \E p \in Procs, a \in AttemptIds : UpdateWarningCount(p, a)
  \/ \E p \in Procs : WarningFindMany(p)
  \/ \E p \in Procs : WarningSubmit(p)

SpecEquiv == InitEquiv /\ [][NextEquiv]_vars

(***************************************************************************)
(* SpecCohort: starts and submits of two candidates with toggleTestLive.   *)
(***************************************************************************)
InitCohort ==
  /\ tests = [t \in TestIds |-> [isLive |-> TRUE]]
  /\ attempts = <<>>
  /\ answers = <<>>
  /\ nextId = 1
  /\ now = 1
  /\ procs = [p \in Procs |-> Idle]
  /\ budget = [NoBudget EXCEPT !.ops = MaxCohortOps, !.toggles = MaxToggles]
  /\ sq = [questionType |-> "MCQ", correctOption |-> OptNull,
           correctInteger |-> IntNull,
           marks |-> DefaultMarks, negativeMarks |-> DefaultNegativeMarks]
  /\ sa = [questionId |-> "q1", selectedOption |-> OptNull,
           integerAnswer |-> IntNull, status |-> "NOT_VISITED"]
  /\ sres = NotScored
  /\ sbody = NoBody
  /\ retry = NoRetry
  /\ authored = NoQuestion

NextCohort ==
  \/ \E p \in Procs, t \in TestIds \cup {NoTest}, c \in Cohort :
       StartTestAttempt(p, t, c)
  \/ \E p \in Procs : StartFindFirst(p)
  \/ \E p \in Procs : StartDelete(p)
  \/ \E p \in Procs : StartCreate(p)
  \/ \E p \in Procs, a \in AttemptIds, b \in LiveSubmitPayloads :
       SubmitTest(p, a, b)
  \/ \E p \in Procs, i \in 1..2 : SubmitAnswerWrite(p, i)
  \/ \E p \in Procs : SubmitAttemptUpdate(p)
  \/ \E p \in Procs : SubmitTestUpdate(p)
  \/ \E p \in Procs, t \in TestIds \cup {NoTest}, v \in LiveInputs :
       ToggleTestLive(p, t, v)

SpecCohort == InitCohort /\ [][NextCohort]_vars

(***************************************************************************)
(* SpecSync: a client sends one syncAnswers body, and sends it again,      *)
(* against an attempt whose rows are fresh, already timed, or scored.      *)
(***************************************************************************)
\* An attempt and its answer rows as the handlers leave them: just started;
\* with q1 visited, timed and answered; completed by a submission that
\* scored q1 wrong.
SyncStart ==
  {[attempt |-> NewAttempt("t1", "alice"),
    rows |-> [q \in Questions |-> NewAnswer]],
   [attempt |-> NewAttempt("t1", "alice"),
    rows |-> [q \in Questions |->
               IF q = "q1"
               THEN [NewAnswer EXCEPT !.selectedOption = "B",
                                      !.status = "ANSWERED",
                                      !.timeSpent = 1, !.visitCount = 1,
                                      !.firstVisitTime = 1,
                                      !.lastVisitTime = 1]
               ELSE NewAnswer]],
   [attempt |-> [NewAttempt("t1", "alice") EXCEPT
                   !.isCompleted = TRUE, !.endTime = 1,
                   !.totalMarks = DefaultNegativeMarks],
    rows |-> [q \in Questions |->
               IF q = "q1"
               THEN [NewAnswer EXCEPT !.selectedOption = "A",
                                      !.status = "ANSWERED",
                                      !.isCorrect = "false",
                                      !.marksAwarded = DefaultNegativeMarks]
               ELSE NewAnswer]]}

\* The entries of a syncAnswers body: for q1 a selectedOption (absent, null
\* or an option), for q2 an integerAnswer (empty, a numeric string or a
\* number), and an entry for q3, of which the attempt has no row.
SyncQ1Entries ==
  {Entry("q1", s, IntUndef, st) :
     s \in {OptUndef, OptNull, "A"}, st \in {"NOT_ANSWERED", "ANSWERED"}}
SyncQ2Entries ==
  {Entry("q2", OptNull, i, st) :
     i \in {IntEmpty, JsStr(1), JsNum(0)},
     st \in {"ANSWERED", "MARKED_FOR_REVIEW"}}
SyncQ3Entry == Entry("q3", "A", IntNull, "ANSWERED")

\* The `answers` arrays: one entry, two entries on different questions, an
\* entry with a row beside one without, and one question named twice.
SyncBatches ==
  {<<e>> : e \in SyncQ1Entries \cup {SyncQ3Entry}}
    \cup {<<e1, e2>> : e1 \in SyncQ1Entries, e2 \in SyncQ2Entries}
    \cup {<<e, SyncQ3Entry>> : e \in SyncQ1Entries}
    \cup {<<Q1Wrong, Q1Right>>}

InitSync ==
  /\ tests = [t \in TestIds |-> [isLive |-> TRUE]]
  /\ \E s \in SyncStart :
       /\ attempts = (1 :> s.attempt)
       /\ answers = (1 :> s.rows)
  /\ nextId = 2
  /\ now = 2
  /\ procs = [p \in Procs |-> Idle]
  /\ budget = [NoBudget EXCEPT !.ops = MaxSyncOps]
  /\ sq = [questionType |-> "MCQ", correctOption |-> OptNull,
           correctInteger |-> IntNull,
           marks |-> DefaultMarks, negativeMarks |-> DefaultNegativeMarks]
  /\ sa = [questionId |-> "q1", selectedOption |-> OptNull,
           integerAnswer |-> IntNull, status |-> "NOT_VISITED"]
  /\ sres = NotScored
  /\ \E a \in AttemptIds, b \in SyncBatches :
       sbody = [attemptId |-> a, answers |-> b]
  /\ retry = NoRetry
  /\ authored = NoQuestion

NextSync ==
  \/ \E p \in Procs : SyncAnswers(p, sbody.attemptId, sbody.answers)
  \/ \E p \in Procs, i \in 1..2 : SyncWrite(p, i)

SpecSync == InitSync /\ [][NextSync]_vars

(***************************************************************************)
(* SpecTrack: the two time tracking handlers on one started attempt.       *)
(***************************************************************************)
InitTrack ==
  /\ tests = [t \in TestIds \cup {OtherTest} |-> [isLive |-> t \in TestIds]]
  /\ attempts = (1 :> NewAttempt("t1", "alice"))
  /\ answers = (1 :> [q \in Questions |-> NewAnswer])
  /\ nextId = 2
  /\ now = 1
  /\ procs = [p \in Procs |-> Idle]
  /\ budget = [NoBudget EXCEPT !.times = MaxTrackTimes]
  /\ sq = [questionType |-> "MCQ", correctOption |-> OptNull,
           correctInteger |-> IntNull,
           marks |-> DefaultMarks, negativeMarks |-> DefaultNegativeMarks]
  /\ sa = [questionId |-> "q1", selectedOption |-> OptNull,
           integerAnswer |-> IntNull, status |-> "NOT_VISITED"]
  /\ sres = NotScored
  /\ sbody = NoBody
  /\ retry = NoRetry
  /\ authored = NoQuestion

NextTrack ==
  \/ \E p \in Procs, a \in AttemptIds, q \in TimeQuestionIds,
        v \in TimeInputs, action \in TimeActions :
       UpdateQuestionTime(p, a, q, v, action)
  \/ \E p \in Procs : TimeWrite(p)
  \/ \E p \in Procs, a \in AttemptIds, b \in TimeBodies : SyncTimeData(p, a, b)

SpecTrack == InitTrack /\ [][NextTrack]_vars

(***************************************************************************)
(* SpecList: two candidates start, the resume handshake runs on their      *)
(* attempts, an attempt is submitted, and the examiner lists the pending   *)
(* requests.                                                               *)
(***************************************************************************)
InitList ==
  /\ tests = [t \in TestIds |-> [isLive |-> TRUE]]
  /\ attempts = <<>>
  /\ answers = <<>>
  /\ nextId = 1
  /\ now = 1
  /\ procs = [p \in Procs |-> Idle]
  /\ budget = [NoBudget EXCEPT !.ops = MaxListOps, !.resumes = MaxListResumes,
                               !.lists = MaxLists, !.ticks = MaxTicks]
  /\ sq = [questionType |-> "MCQ", correctOption |-> OptNull,
           correctInteger |-> IntNull,
           marks |-> DefaultMarks, negativeMarks |-> DefaultNegativeMarks]
  /\ sa = [questionId |-> "q1", selectedOption |-> OptNull,
           integerAnswer |-> IntNull, status |-> "NOT_VISITED"]
  /\ sres = NotScored
  /\ sbody = NoBody
  /\ retry = NoRetry
  /\ authored = NoQuestion

NextList ==
  \/ \E p \in Procs, t \in TestIds, c \in Cohort : StartTestAttempt(p, t, c)
  \/ \E p \in Procs : StartFindFirst(p)
  \/ \E p \in Procs : StartDelete(p)
  \/ \E p \in Procs : StartCreate(p)
  \/ \E p \in Procs, a \in AttemptIds : SubmitTest(p, a, <<>>)
  \/ \E p \in Procs : SubmitAttemptUpdate(p)
  \/ \E p \in Procs : SubmitTestUpdate(p)
  \/ \E p \in Procs, a \in AttemptIds : RequestResume(p, a)
  \/ \E p \in Procs, a \in AttemptIds : AllowResume(p, a)
  \/ \E p \in Procs : GetResumeRequests(p)
  \/ Tick

SpecList == InitList /\ [][NextList]_vars

(***************************************************************************)
(* SpecSkip: submitTest bodies that carry an answer to a question that is  *)
(* not a question of the attempt's test.                                   *)
(***************************************************************************)
\* Answers to q3, a question of the other test, and to a question that does
\* not exist; both would score as wrong.
Q3Wrong == Entry("q3", "A", IntNull, "ANSWERED")
Q9Wrong == Entry(UnknownQuestion, "A", JsNum(0), "ANSWERED")

\* The bodies of SpecSkip: the foreign answer alone, after a known answer,
\* before one, and an answer to a missing question before a known one.
SkipPayloads ==
  {<<Q3Wrong>>, <<Q1Right, Q3Wrong>>, <<Q3Wrong, Q2Wrong>>, <<Q9Wrong, Q1Wrong>>}

\* The rows of the started attempt: one per question of its test, and
\* possibly the q3 row an earlier syncTimeData inserted.
SkipRows ==
  {[q \in Questions |-> NewAnswer],
   [q \in Questions \cup OtherQuestions |->
      IF q \in Questions THEN NewAnswer ELSE CreatedByUpsert(1)]}

InitSkip ==
  /\ tests = [t \in TestIds \cup {OtherTest} |-> [isLive |-> t \in TestIds]]
  /\ attempts = (1 :> NewAttempt("t1", "alice"))
  /\ now = 1
  /\ \E rows \in SkipRows : answers = (1 :> rows)
  /\ nextId = 2
  /\ procs = [p \in Procs |-> Idle]
  /\ budget = [NoBudget EXCEPT !.ops = MaxSkipOps]
  /\ sq = [questionType |-> "MCQ", correctOption |-> OptNull,
           correctInteger |-> IntNull,
           marks |-> DefaultMarks, negativeMarks |-> DefaultNegativeMarks]
  /\ sa = [questionId |-> "q1", selectedOption |-> OptNull,
           integerAnswer |-> IntNull, status |-> "NOT_VISITED"]
  /\ sres = NotScored
  /\ sbody = NoBody
  /\ retry = NoRetry
  /\ authored = NoQuestion

NextSkip ==
  \/ \E p \in Procs, a \in AttemptIds, b \in SkipPayloads : SubmitTest(p, a, b)
  \/ \E p \in Procs, i \in 1..2 : SubmitAnswerWrite(p, i)
  \/ \E p \in Procs : SubmitAttemptUpdate(p)
  \/ \E p \in Procs : SubmitTestUpdate(p)

SpecSkip == InitSkip /\ [][NextSkip]_vars

(***************************************************************************)
(* SpecRetry: one handler under asyncHandler awaits                        *)
(* retryDatabaseOperation; the operation settles each time it is invoked   *)
(* and the timer of the backoff fires.                                     *)
(***************************************************************************)
InitRetry ==
  /\ tests = [t \in TestIds |-> [isLive |-> TRUE]]
  /\ attempts = <<>>
  /\ answers = <<>>
  /\ nextId = 1
  /\ now = 1
  /\ procs = [p \in Procs |-> Idle]
  /\ budget = NoBudget
  /\ sq = [questionType |-> "MCQ", correctOption |-> OptNull,
           correctInteger |-> IntNull,
           marks |-> DefaultMarks, negativeMarks |-> DefaultNegativeMarks]
  /\ sa = [questionId |-> "q1", selectedOption |-> OptNull,
           integerAnswer |-> IntNull, status |-> "NOT_VISITED"]
  /\ sres = NotScored
  /\ sbody = NoBody
  /\ retry = NoRetry
  /\ authored = NoQuestion

NextRetry ==
  \/ \E m \in 1..MaxMaxRetries, d \in {1, DefaultBaseDelay} : RetryStart(m, d)
  \/ OperationReturns
  \/ \E e \in Errors : OperationThrows(e)
  \/ RetryAgain
  \/ AsyncHandlerAnswers

SpecRetry ==
  InitRetry /\ [][NextRetry]_vars
    /\ WF_vars(OperationReturns \/ \E e \in Errors : OperationThrows(e))
    /\ WF_vars(RetryAgain)
    /\ WF_vars(AsyncHandlerAnswers)

(***************************************************************************)
(* SpecForced: the warnings that reach the threshold on an attempt with    *)
(* synced answers, when a statement of the forced submission can fail.     *)
(***************************************************************************)
InitForced ==
  /\ tests = [t \in TestIds |-> [isLive |-> TRUE]]
  /\ attempts = (1 :> [NewAttempt("t1", "alice") EXCEPT
                         !.warningCount = WarningThreshold - 1])
  /\ \E rows \in PersistedRows : answers = (1 :> rows)
  /\ nextId = 2
  /\ now = 1
  /\ procs = [p \in Procs |-> Idle]
  /\ budget = [NoBudget EXCEPT !.warnings = MaxForcedWarnings,
                               !.faults = MaxFaults]
  /\ sq = [questionType |-> "MCQ", correctOption |-> OptNull,
           correctInteger |-> IntNull,
           marks |-> DefaultMarks, negativeMarks |-> DefaultNegativeMarks]
  /\ sa = [questionId |-> "q1", selectedOption |-> OptNull,
           integerAnswer |-> IntNull, status |-> "NOT_VISITED"]
  /\ sres = NotScored
  /\ sbody = NoBody
  /\ retry = NoRetry
  /\ authored = NoQuestion

NextForced ==
  \/ \E p \in Procs, a \in AttemptIds : UpdateWarningCount(p, a)
  \/ \E p \in Procs : WarningFindMany(p)
  \/ \E p \in Procs : WarningSubmit(p)
  \/ \E p \in Procs, i \in 1..2 : SubmitAnswerWrite(p, i)
  \/ \E p \in Procs : SubmitAttemptUpdate(p)
  \/ \E p \in Procs : SubmitTestUpdate(p)
  \/ \E p \in Procs : SubmitStorageError(p)

SpecForced == InitForced /\ [][NextForced]_vars

(***************************************************************************)
(* SpecFrame: starts and submits on the live test while the database holds *)
(* an attempt of another candidate on that test and an attempt of the same *)
(* candidate on another test.                                              *)
(***************************************************************************)
InitFrame ==
  /\ tests = [t \in TestIds \cup {OtherTest} |-> [isLive |-> t \in TestIds]]
  /\ attempts = (1 :> NewAttempt("t1", "bob")) @@ (2 :> NewAttempt(OtherTest, "alice"))
  /\ answers = (1 :> [q \in Questions |-> NewAnswer])
                 @@ (2 :> [q \in OtherQuestions |-> NewAnswer])
  /\ nextId = 3
  /\ now = 1
  /\ procs = [p \in Procs |-> Idle]
  /\ budget = [NoBudget EXCEPT !.ops = MaxFrameOps]
  /\ sq = [questionType |-> "MCQ", correctOption |-> OptNull,
           correctInteger |-> IntNull,
           marks |-> DefaultMarks, negativeMarks |-> DefaultNegativeMarks]
  /\ sa = [questionId |-> "q1", selectedOption |-> OptNull,
           integerAnswer |-> IntNull, status |-> "NOT_VISITED"]
  /\ sres = NotScored
  /\ sbody = NoBody
  /\ retry = NoRetry
  /\ authored = NoQuestion

NextFrame ==
  \/ \E p \in Procs, t \in TestIds \cup {OtherTest}, c \in Cohort :
       StartTestAttempt(p, t, c)
  \/ \E p \in Procs : StartFindFirst(p)
  \/ \E p \in Procs : StartDelete(p)
  \/ \E p \in Procs : StartCreate(p)
  \/ \E p \in Procs, a \in AttemptIds, b \in LiveSubmitPayloads :
       SubmitTest(p, a, b)
  \/ \E p \in Procs, i \in 1..2 : SubmitAnswerWrite(p, i)
  \/ \E p \in Procs : SubmitAttemptUpdate(p)
  \/ \E p \in Procs : SubmitTestUpdate(p)

SpecFrame == InitFrame /\ [][NextFrame]_vars

(***************************************************************************)
(* SpecScore: submitTest's scoring of one answer, for every question       *)
(* createTest can store and every answer a request body can carry.         *)
(***************************************************************************)
InitScore ==
  /\ tests = [t \in TestIds |-> [isLive |-> TRUE]]
  /\ attempts = <<>>
  /\ answers = <<>>
  /\ nextId = 1
  /\ now = 1
  /\ procs = [p \in Procs |-> Idle]
  /\ budget = NoBudget
  /\ sq \in StoredQuestions
  /\ sa \in PayloadAnswers
  /\ sres = NotScored
  /\ sbody = NoBody
  /\ retry = NoRetry
  /\ authored = NoQuestion

\* Lines 172-201 for the answer sa to the question sq.
Score ==
  /\ ~sres.scored
  /\ sres' = ScoredUpdate(sq, sa)
  /\ UNCHANGED <<dbVars, procs, budget, sq, sa, sbody, retry, authored>>

NextScore == Score

SpecScore == InitScore /\ [][NextScore]_vars

(***************************************************************************)
(* createTest and updateTest: the question row written for one question of *)
(* the parsed `sections` JSON.                                             *)
(***************************************************************************)
\* JavaScript truthiness of a correctInteger value of the JSON: null,
\* undefined, the empty string and the number 0 are falsy; every other number
\* and every non-empty string, "0" included, is truthy.
TruthyInteger(v) ==
  \/ v[1] = "numstr"
  \* A number is truthy unless it is 0.
  \/ v[1] = "number" /\ v[2] # 0

\* Lines 68 and 357: question.correctOption || null
CorrectOptionOf(s) == IF Truthy(s) THEN s ELSE OptNull

\* Lines 69 and 358: question.correctInteger ? parseInt(question.correctInteger) : null
CorrectIntegerOf(v) == IF TruthyInteger(v) THEN JsNum(v[2]) ELSE IntNull

\* Lines 65-72 and 353-361: the scoring fields of the row written for the
\* question; questionType is the type of the question's section.
questionData(question) ==
  [questionType |-> question.questionType,
   correctOption |-> CorrectOptionOf(question.correctOption),
   correctInteger |-> CorrectIntegerOf(question.correctInteger),
   marks |-> DefaultMarks,
   negativeMarks |-> DefaultNegativeMarks]

\* The questions the parsed JSON can hold, not yet saved.
AuthoredQuestions ==
  [questionType : QuestionType,
   correctOption : PayloadOptions,
   correctInteger : PayloadIntegers,
   saved : {FALSE}]

\* The answers to an INTEGER question a request body can carry.
IntegerAnswers == {a \in PayloadAnswers : a.selectedOption = OptNull}

\* createTest, lines 15-88, for the one question `authored`.
CreateTest ==
  /\ ~authored.saved
  /\ sq' = questionData(authored)
  /\ authored' = [authored EXCEPT !.saved = TRUE]
  /\ UNCHANGED <<dbVars, procs, budget, sa, sres, sbody, retry>>

\* updateTest, lines 195-400, replacing the question by newQuestion.
UpdateTest(newQuestion) ==
  /\ authored.saved
  /\ ~sres.scored
  /\ budget.ops > 0
  /\ budget' = [budget EXCEPT !.ops = @ - 1]
  /\ sq' = questionData(newQuestion)
  /\ authored' = [newQuestion EXCEPT !.saved = TRUE]
  /\ UNCHANGED <<dbVars, procs, sa, sres, sbody, retry>>

\* submitTest, lines 172-201, for the answer sa to the saved question.
ScoreSaved ==
  /\ authored.saved
  /\ Score

(***************************************************************************)
(* SpecAuthor: an author creates a question and may replace it by          *)
(* updateTest; a candidate's answer to it is then scored.                  *)
(***************************************************************************)
InitAuthor ==
  /\ tests = [t \in TestIds |-> [isLive |-> TRUE]]
  /\ attempts = <<>>
  /\ answers = <<>>
  /\ nextId = 1
  /\ now = 1
  /\ procs = [p \in Procs |-> Idle]
  /\ budget = [NoBudget EXCEPT !.ops = MaxAuthorUpdates]
  /\ sq = [questionType |-> "MCQ", correctOption |-> OptNull,
           correctInteger |-> IntNull,
           marks |-> DefaultMarks, negativeMarks |-> DefaultNegativeMarks]
  /\ sa \in IntegerAnswers
  /\ sres = NotScored
  /\ sbody = NoBody
  /\ retry = NoRetry
  /\ authored \in AuthoredQuestions

NextAuthor ==
  \/ CreateTest
  \/ \E q \in AuthoredQuestions : UpdateTest(q)
  \/ ScoreSaved

SpecAuthor == InitAuthor /\ [][NextAuthor]_vars

(***************************************************************************)
(* Properties of the scoring rule.                                         *)
(***************************************************************************)
Scorable == {"ANSWERED", "MARKED_FOR_REVIEW"}

\* The answer carries a value: a non-empty selectedOption, or an
\* integerAnswer that is neither null nor missing.
SuppliesValue(a) ==
  \/ a.selectedOption \in PayloadOptions \ {OptNull, OptUndef, ""}
  \/ a.integerAnswer \in PayloadIntegers \ {IntNull, IntUndef}

\* The scoring contract, in its order of evaluation.
ReferenceScore(q, a) ==
  CASE a.status \notin Scorable -> <<"null", 0>>
    [] a.status \in Scorable /\ q.correctOption \in Options
         /\ a.selectedOption = q.correctOption -> <<"true", q.marks>>
    [] a.status \in Scorable
         /\ ~(q.correctOption \in Options /\ a.selectedOption = q.correctOption)
         /\ q.correctInteger # IntNull
         /\ a.integerAnswer = q.correctInteger -> <<"true", q.marks>>
    [] OTHER -> IF SuppliesValue(a)
                THEN <<"false", q.negativeMarks>>
                ELSE <<"null", 0>>

\* C7: for every question and every submitted answer, the isCorrect and
\* marksAwarded that submitTest stores are those of the scoring contract:
\* an unscorable status gives (null, 0); otherwise a selectedOption equal to a
\* non-empty correctOption gives (true, marks); else an integerAnswer equal to
\* a non-null correctInteger gives (true, marks); else any supplied value
\* gives (false, negativeMarks); else (null, 0).
C7_ScoreFollowsContract ==
  sres.scored => <<sres.isCorrect, sres.marksAwarded>> = ReferenceScore(sq, sa)

\* C7 witness: a MARKED_FOR_REVIEW answer was scored correct through the
\* integer key of its question.
C7_Witness ==
  /\ sres.scored
  /\ sa.status = "MARKED_FOR_REVIEW"
  /\ sq.correctOption = OptNull
  /\ sa.integerAnswer = sq.correctInteger
  /\ sres.isCorrect = "true"
  /\ sres.marksAwarded = DefaultMarks

\* The answer carries no value at all: selectedOption null, missing or empty,
\* integerAnswer null, missing or the empty string.
CarriesNoValue(a) ==
  /\ a.selectedOption \in {OptNull, OptUndef, ""}
  /\ a.integerAnswer \in {IntNull, IntUndef, IntEmpty}

\* C8: an ANSWERED or MARKED_FOR_REVIEW answer that carries no answer value
\* is stored with isCorrect = null and marksAwarded = 0.
C8_NoValueIsUnattempted ==
  (sres.scored /\ sa.status \in Scorable /\ CarriesNoValue(sa))
    => (sres.isCorrect = "null" /\ sres.marksAwarded = 0)

\* C10: an answer is marked correct only through the key of its question's
\* section type: correctOption in an MCQ section, correctInteger in an
\* INTEGER section.
C10_AuthoritativeKeyOnly ==
  (sres.scored /\ sres.isCorrect = "true")
    => /\ sq.questionType = "MCQ" =>
            (sq.correctOption \in Options /\ sa.selectedOption = sq.correctOption)
       /\ sq.questionType = "INTEGER" =>
            (sq.correctInteger # IntNull /\ sa.integerAnswer = sq.correctInteger)


(***************************************************************************)
(* Properties of the attempt lifecycle.                                    *)
(***************************************************************************)
\* The request of p takes this step.
Acts(p) == procs'[p] # procs[p]

\* p runs submitTest and is past its findUnique (line 137).
InSubmit(p) == procs[p].pc \in {"answerWrite", "attemptUpdate", "testUpdate"}

\* Every other request has been answered.
Alone(p) == \A o \in Procs \ {p} : procs[o].op = "idle"

\* The sum of the stored marksAwarded of the answers of attempt a.
RECURSIVE SumStored(_, _)
SumStored(a, qs) ==
  IF qs = {}
  THEN 0
  ELSE LET q == CHOOSE x \in qs : TRUE
       IN answers[a][q].marksAwarded + SumStored(a, qs \ {q})

StoredMarks(a) == SumStored(a, DOMAIN answers[a])

\* The incomplete attempts of candidate c on test t.
Incomplete(t, c) ==
  {a \in DOMAIN attempts : /\ attempts[a].testId = t
                           /\ attempts[a].candidateName = c
                           /\ ~attempts[a].isCompleted}

\* C1: whatever the interleaving of startTestAttempt calls, a (testId,
\* candidateName) pair has at most one attempt with isCompleted = false.
C1_OneIncompleteAttempt ==
  \A t \in TestIds, c \in Candidates : Cardinality(Incomplete(t, c)) <= 1

\* C2: a submitTest that found its attempt already completed changes nothing:
\* the attempt's totalMarks and endTime and every answer row stay as they are.
C2_CompletedSubmitIsNoOp ==
  [][\A p \in Procs :
       (Acts(p) /\ InSubmit(p) /\ procs[p].op = "submit" /\ procs[p].wasCompleted)
         => (attempts' = attempts /\ answers' = answers)]_vars

\* C3: once the warning count of an attempt has reached the threshold and the
\* attempt is completed, a later warning call (count 6, 7, ...) and a later
\* explicit submit do not score or rewrite the attempt: they leave the
\* attempt and its answers alone.
C3_ThresholdSubmitsOnce ==
  [][\A p \in Procs : \A a \in DOMAIN attempts :
       (/\ Acts(p) /\ InSubmit(p) /\ Alone(p)
        /\ procs[p].attemptId = a
        /\ procs[p].wasCompleted
        /\ \/ procs[p].op = "warning" /\ attempts[a].warningCount > WarningThreshold
           \/ procs[p].op = "submit" /\ attempts[a].warningCount >= WarningThreshold)
         => (attempts' = attempts /\ answers' = answers)]_vars

\* The question ids of the updates of p are pairwise different.
DistinctQuestions(p) ==
  \A i, j \in 1..Len(procs[p].updates) :
    procs[p].updates[i].questionId = procs[p].updates[j].questionId => i = j

\* The stored answers of attempt a are what the updates of p alone leave.
WrittenBy(a, p) ==
  \A i \in 1..Len(procs[p].updates) :
    LET u == procs[p].updates[i]
    IN /\ u.questionId \in DOMAIN answers[a]
       /\ answers[a][u.questionId].isCorrect = u.isCorrect
       /\ answers[a][u.questionId].marksAwarded = u.marksAwarded
       /\ answers[a][u.questionId].status = u.status
       /\ answers[a][u.questionId].integerAnswer = u.integerAnswer

\* C4: when an explicit submitTest and the threshold-reaching
\* updateWarningCount have both run their submission on one attempt, the
\* attempt's totalMarks is the sum of the stored marksAwarded and the stored
\* answers come from one of the two payloads only.
C4_OneSubmissionWins ==
  \A p, w \in Procs :
    (/\ procs[p].op = "submit" /\ procs[w].op = "warning"
     /\ procs[p].pc = "testUpdate" /\ procs[w].pc = "testUpdate"
     /\ procs[p].attemptId = procs[w].attemptId
     /\ procs[p].attemptId \in DOMAIN attempts
     /\ ~procs[p].wasCompleted /\ ~procs[w].wasCompleted
     /\ DistinctQuestions(p))
      => /\ attempts[procs[p].attemptId].totalMarks = StoredMarks(procs[p].attemptId)
         /\ \/ WrittenBy(procs[p].attemptId, p)
            \/ WrittenBy(procs[p].attemptId, w)

\* C5: a syncAnswers update never overwrites the answer fields of a scored
\* row of a completed attempt.
C5_SyncKeepsScoredRows ==
  [][\A p \in Procs :
       (/\ Acts(p) /\ procs[p].pc = "syncWrite"
        /\ procs[p].attemptId \in DOMAIN attempts
        /\ attempts[procs[p].attemptId].isCompleted)
         => \A q \in DOMAIN answers[procs[p].attemptId] :
              answers[procs[p].attemptId][q].isCorrect # "null"
                => answers'[procs[p].attemptId][q] = answers[procs[p].attemptId][q]]_vars

\* Nothing of a submission is stored for attempt a.
NothingScored(a) ==
  /\ \A q \in DOMAIN answers[a] :
       answers[a][q].isCorrect = "null" /\ answers[a][q].marksAwarded = 0
  /\ ~attempts[a].isCompleted
  /\ attempts[a].totalMarks = 0
  /\ attempts[a].endTime = 0
  /\ tests[attempts[a].testId].isLive

\* C6: when a submitTest, running alone on an attempt that is not completed,
\* fails part-way and answers 500, no scored value is left behind: every
\* answer still has isCorrect = null and marksAwarded = 0, the attempt is not
\* completed, has totalMarks 0 and no endTime, and the test is still live.
C6_FailedSubmitStoresNothing ==
  [][\A p \in Procs : \A a \in DOMAIN attempts :
       (/\ Acts(p) /\ InSubmit(p) /\ Alone(p)
        /\ procs[p].attemptId = a
        /\ ~procs[p].wasCompleted /\ ~attempts[a].isCompleted
        /\ procs'[p].resp = 500
        /\ a \in DOMAIN attempts')
         => NothingScored(a)']_vars

\* C9: when submitTest has completed the attempt, the attempt's totalMarks is
\* the sum of the marksAwarded of its stored answers.
C9_TotalIsSumOfStoredMarks ==
  \A p \in Procs :
    (/\ procs[p].op = "submit" /\ procs[p].pc = "testUpdate" /\ Alone(p)
     /\ procs[p].attemptId \in DOMAIN attempts)
      => attempts[procs[p].attemptId].totalMarks = StoredMarks(procs[p].attemptId)


(***************************************************************************)
(* Properties of startTestAttempt, the resume handshake and toggleTestLive. *)
(***************************************************************************)
\* Every attempt, completed or not, of candidate c on test t.
PairAttempts(t, c) ==
  {a \in DOMAIN attempts : /\ attempts[a].testId = t
                           /\ attempts[a].candidateName = c}

\* p runs the findFirst of startTestAttempt in this step, no other request
\* being in flight.
StartLooksUp(p) == Acts(p) /\ procs[p].pc = "findFirst" /\ Alone(p)

\* C11: once the (testId, candidateName) pair has a completed attempt, a
\* startTestAttempt that looks the pair up is answered 400 (already
\* completed) and goes no further: it deletes and creates nothing, also after
\* the test has been set live again.
C11_CompletedBlocksStart ==
  [][\A p \in Procs :
       (/\ StartLooksUp(p)
        /\ tests[procs[p].testId].isLive
        /\ \E a \in PairAttempts(procs[p].testId, procs[p].cand) :
             attempts[a].isCompleted)
         => (procs'[p].op = "idle" /\ procs'[p].resp = 400)]_vars

\* C12: a startTestAttempt that looks up a pair whose only attempt is
\* incomplete with needsResume = true and canResume = false is answered 403
\* with the id of that attempt; the attempt and its answer rows stay as they
\* are and no attempt is created.
C12_ResumeRequiredRejects ==
  [][\A p \in Procs : \A a \in DOMAIN attempts :
       (/\ Acts(p) /\ procs[p].pc = "findFirst"
        /\ PairAttempts(procs[p].testId, procs[p].cand) = {a}
        /\ ~attempts[a].isCompleted
        /\ attempts[a].needsResume /\ ~attempts[a].canResume)
         => /\ procs'[p].op = "idle"
            /\ procs'[p].resp = 403
            /\ procs'[p].attemptId = a
            /\ attempts' = attempts
            /\ answers' = answers
            /\ nextId' = nextId]_vars

\* C12 witness: a start was answered 403 with the id of an attempt that
\* waits for permission and still has its answer rows.
C12_Witness ==
  \E p \in Procs : \E a \in DOMAIN attempts :
    /\ procs[p].resp = 403
    /\ procs[p].attemptId = a
    /\ attempts[a].needsResume /\ ~attempts[a].canResume
    /\ ~attempts[a].isCompleted
    /\ DOMAIN answers[a] = Questions
    /\ DOMAIN attempts = {a}

\* C13: while the last handshake request on the pair's only, incomplete
\* attempt is a requestResume (needsResume is true: allowResume clears it,
\* requestResume sets it), a startTestAttempt that looks the pair up is
\* answered 403, also when an earlier request had been allowed.
C13_PendingRequestBlocksStart ==
  [][\A p \in Procs : \A a \in DOMAIN attempts :
       (/\ StartLooksUp(p)
        /\ PairAttempts(procs[p].testId, procs[p].cand) = {a}
        /\ ~attempts[a].isCompleted
        /\ attempts[a].needsResume)
         => (procs'[p].op = "idle" /\ procs'[p].resp = 403)]_vars

\* The attempt is incomplete and its last handshake request was allowed.
Allowed(a) ==
  ~attempts[a].isCompleted /\ attempts[a].canResume /\ ~attempts[a].needsResume

\* No storage error strikes in this step.
NoFault == budget'.faults = budget.faults

\* C14: after start, requestResume, allowResume, the next startTestAttempt of
\* the pair, running alone and without storage errors, is not rejected: its
\* lookup goes on to the delete, the delete removes the allowed attempt, and
\* the create answers 201 and leaves the pair with exactly one incomplete
\* attempt.
C14_AllowedStartSucceeds ==
  [][\A p \in Procs : \A t \in TestIds : \A c \in Candidates :
       (Acts(p) /\ Alone(p) /\ NoFault
          /\ procs[p].testId = t /\ procs[p].cand = c)
         => /\ \A a \in DOMAIN attempts :
                 (procs[p].pc = "findFirst" /\ PairAttempts(t, c) = {a} /\ Allowed(a))
                   => (procs'[p].pc = "delete" /\ procs'[p].existing = a)
            /\ \A a \in DOMAIN attempts :
                 (/\ procs[p].pc = "delete" /\ procs[p].existing = a
                  /\ PairAttempts(t, c) = {a} /\ Allowed(a))
                   => (procs'[p].pc = "create" /\ PairAttempts(t, c)' = {})
            /\ (/\ procs[p].pc = "create" /\ procs[p].existing # NoAttempt
                /\ PairAttempts(t, c) = {})
                  => /\ procs'[p].resp = 201
                     /\ Cardinality(Incomplete(t, c)') = 1
                     /\ PairAttempts(t, c)' = Incomplete(t, c)']_vars

\* C14 witness: the lookup of a start found the allowed attempt and went on
\* to delete it.
C14_Witness ==
  \E p \in Procs :
    /\ procs[p].pc = "delete" /\ Alone(p)
    /\ procs[p].existing \in DOMAIN attempts
    /\ Allowed(procs[p].existing)
    /\ PairAttempts(procs[p].testId, procs[p].cand) = {procs[p].existing}

\* C15: a startTestAttempt that found an attempt to replace and fails (500)
\* leaves the pair with an attempt: the prior one or a fresh one.
C15_FailedStartKeepsAttempt ==
  [][\A p \in Procs : \A t \in TestIds : \A c \in Candidates :
       (/\ Acts(p) /\ Alone(p)
        /\ procs[p].op = "start"
        /\ procs[p].testId = t /\ procs[p].cand = c
        /\ procs[p].existing # NoAttempt
        /\ procs'[p].resp = 500)
         => PairAttempts(t, c)' # {}]_vars

\* C16: a startTestAttempt for a test that does not exist is answered 404,
\* one for a test that is not live is answered 400, and in both cases the
\* attempts and the answer rows stay as they are, also when the candidate has
\* an incomplete attempt.
C16_RejectedStartTouchesNothing ==
  [][\A p \in Procs : \A t \in TestIds \cup {NoTest} : \A c \in Candidates :
       (StartTestAttempt(p, t, c) /\ (t \notin DOMAIN tests \/ ~tests[t].isLive))
         => /\ procs'[p].op = "idle"
            /\ procs'[p].resp = (IF t \in DOMAIN tests THEN 400 ELSE 404)
            /\ attempts' = attempts
            /\ answers' = answers
            /\ nextId' = nextId]_vars

\* C16 witness: a start was answered 400 while the test is not live and the
\* candidate has an incomplete attempt and no completed one.
C16_Witness ==
  \E p \in Procs : \E t \in TestIds : \E c \in Candidates :
    /\ procs[p].resp = 400
    /\ ~tests[t].isLive
    /\ Incomplete(t, c) # {}
    /\ PairAttempts(t, c) = Incomplete(t, c)
    /\ \A a \in Incomplete(t, c) : DOMAIN answers[a] = Questions

C18_OneRowPerQuestion ==
  \A a \in DOMAIN attempts :
    a \in DOMAIN answers /\ DOMAIN answers[a] = Questions

\* C19: the warning count of an attempt grows by exactly one with each
\* updateWarningCount call on it, whatever else is in flight, and no other
\* step changes it: after n calls it is n, and it never goes down.
C19_WarningCountCountsCalls ==
  [][\A a \in DOMAIN attempts :
       a \in DOMAIN attempts'
         => attempts'[a].warningCount =
              IF \E p \in Procs : UpdateWarningCount(p, a)
              THEN attempts[a].warningCount + 1
              ELSE attempts[a].warningCount]_vars

\* C19 witness: every warning request of the behaviour went to one attempt,
\* two of them while another warning request was in flight, and its count is
\* their number.
C19_Witness ==
  \E a \in DOMAIN attempts :
    /\ budget.warnings = 0
    /\ attempts[a].warningCount = MaxWarnings
    /\ \A p \in Procs : procs[p].op = "warning" /\ procs[p].attemptId = a

\* The marks the scoring contract gives the entries of a payload.
RECURSIVE ReferenceTotal(_)
ReferenceTotal(payload) ==
  IF payload = <<>>
  THEN 0
  ELSE (IF Head(payload).questionId \in Questions
        THEN ReferenceScore(Catalog[Head(payload).questionId], Head(payload))[2]
        ELSE 0) + ReferenceTotal(Tail(payload))

\* The rows of attempt a, as findMany returns them, carry the same values as
\* the entries of the payload.
SameAsRows(payload, a) ==
  /\ {payload[i].questionId : i \in 1..Len(payload)} = DOMAIN answers[a]
  /\ Len(payload) = Cardinality(DOMAIN answers[a])
  /\ \A i \in 1..Len(payload) :
       LET row == answers[a][payload[i].questionId]
       IN /\ payload[i].selectedOption = row.selectedOption
          /\ payload[i].integerAnswer = row.integerAnswer
          /\ payload[i].status = row.status

\* C20: an updateWarningCount call that leaves the count at 1..4 answers with
\* the count and changes nothing but the count: isCompleted, totalMarks, the
\* answer rows and the test's isLive stay. The call that makes the count 5
\* goes on to a submission: it reads the attempt's persisted answer rows,
\* scores exactly these, and its attempt update leaves the attempt completed
\* with their total.
C20_ThresholdForcesSubmit ==
  [][\A p \in Procs : \A a \in DOMAIN attempts :
       /\ (UpdateWarningCount(p, a) /\ attempts[a].warningCount + 1 < WarningThreshold)
            => /\ procs'[p].op = "idle" /\ procs'[p].resp = 200
               /\ attempts' = [attempts EXCEPT ![a].warningCount = @ + 1]
               /\ answers' = answers
               /\ tests' = tests
       /\ (UpdateWarningCount(p, a) /\ attempts[a].warningCount + 1 = WarningThreshold)
            => /\ procs'[p].op = "warning" /\ procs'[p].attemptId = a
               /\ attempts'[a].isCompleted = attempts[a].isCompleted
       /\ (Acts(p) /\ procs[p].pc = "findMany" /\ procs[p].attemptId = a)
            => SameAsRows(procs'[p].payload, a)
       /\ (/\ Acts(p) /\ procs[p].op = "warning" /\ procs[p].pc = "attemptUpdate"
           /\ procs[p].attemptId = a)
            => /\ attempts'[a].isCompleted
               /\ attempts'[a].endTime # 0
               /\ attempts'[a].totalMarks = ReferenceTotal(procs[p].payload)]_vars

\* C20 witness: the fifth warning forced a submission that scored the
\* synced answer of q1 and left the attempt completed with its marks.
C20_Witness ==
  \E p \in Procs : \E a \in DOMAIN attempts :
    /\ procs[p].op = "warning" /\ procs[p].pc = "testUpdate"
    /\ procs[p].attemptId = a /\ ~procs[p].wasCompleted
    /\ attempts[a].warningCount = WarningThreshold
    /\ attempts[a].isCompleted
    /\ attempts[a].totalMarks = DefaultMarks
    /\ answers[a]["q1"].isCorrect = "true"
    /\ SameAsRows(procs[p].payload, a)

(***************************************************************************)
(* Properties of the forced submission, of submitTest and of completion.   *)
(***************************************************************************)
\* The stored answer row (a, q) as an entry of a payload.
RowEntry(a, q) ==
  Entry(q, answers[a][q].selectedOption, answers[a][q].integerAnswer,
        answers[a][q].status)

\* The marks the scoring contract gives the stored rows qs of attempt a.
RECURSIVE RowsTotal(_, _)
RowsTotal(a, qs) ==
  IF qs = {}
  THEN 0
  ELSE LET q == CHOOSE x \in qs : TRUE
       IN ReferenceScore(Catalog[q], RowEntry(a, q))[2] + RowsTotal(a, qs \ {q})

\* C21: the submission forced by the threshold-reaching updateWarningCount
\* and a submitTest whose body carries the persisted answer rows leave the
\* same attempt and answer state. Whichever of the two runs, each of its
\* answer updates keeps the persisted selectedOption, integerAnswer and
\* status of the row and stores the score of these values, and its attempt
\* update completes the attempt with the total of the persisted rows' scores.
C21_ForcedSubmitEqualsExplicit ==
  [][\A p \in Procs : \A a \in DOMAIN attempts :
       (Acts(p) /\ InSubmit(p) /\ procs[p].attemptId = a)
         => /\ \A q \in DOMAIN answers[a] :
                 /\ RowEntry(a, q)' = RowEntry(a, q)
                 /\ answers'[a][q] # answers[a][q]
                      => <<answers'[a][q].isCorrect, answers'[a][q].marksAwarded>>
                           = ReferenceScore(Catalog[q], RowEntry(a, q))
            /\ procs[p].pc = "attemptUpdate"
                 => /\ attempts'[a].isCompleted
                    /\ attempts'[a].endTime # 0
                    /\ attempts'[a].totalMarks = RowsTotal(a, DOMAIN answers[a])
                    /\ \A q \in DOMAIN answers[a] :
                         <<answers[a][q].isCorrect, answers[a][q].marksAwarded>>
                           = ReferenceScore(Catalog[q], RowEntry(a, q))]_vars

\* C21 witness: the fifth warning forced the submission of an attempt whose
\* stored answers are one right and one wrong, and left it with 3 marks.
C21_Witness ==
  \E p \in Procs : \E a \in DOMAIN attempts :
    /\ procs[p].op = "warning" /\ procs[p].pc = "testUpdate"
    /\ procs[p].attemptId = a
    /\ attempts[a].warningCount = WarningThreshold
    /\ answers[a]["q1"].isCorrect = "true"
    /\ answers[a]["q2"].isCorrect = "false"
    /\ attempts[a].totalMarks = DefaultMarks + DefaultNegativeMarks

\* C22: the attempt update of a submitTest sets isCompleted, an endTime and
\* the total of the submitted answers' marks; its test update, after which it
\* answers 200, sets the test's isLive to false; only toggleTestLive makes a
\* test live again; and a startTestAttempt of any candidate that arrives
\* while the test is not live is answered 400 and touches no row.
C22_SubmitEndsLiveSession ==
  [][/\ \A p \in Procs : \A a \in DOMAIN attempts :
          (/\ Acts(p) /\ procs[p].op = "submit" /\ procs[p].pc = "attemptUpdate"
           /\ procs[p].attemptId = a)
            => /\ attempts'[a].isCompleted
               /\ attempts'[a].endTime # 0
               /\ attempts'[a].totalMarks = ReferenceTotal(procs[p].payload)
     /\ \A p \in Procs : \A t \in TestIds :
          (/\ Acts(p) /\ procs[p].op = "submit" /\ procs[p].pc = "testUpdate"
           /\ procs[p].testId = t)
            => (~tests'[t].isLive /\ procs'[p].resp = 200)
     /\ \A t \in TestIds :
          (~tests[t].isLive /\ tests'[t].isLive)
            => \E p \in Procs : \E v \in LiveInputs : ToggleTestLive(p, t, v)
     /\ \A p \in Procs : \A t \in TestIds : \A c \in Cohort :
          (StartTestAttempt(p, t, c) /\ ~tests[t].isLive)
            => /\ procs'[p].op = "idle" /\ procs'[p].resp = 400
               /\ attempts' = attempts /\ answers' = answers]_vars

\* C22 witness: alice's attempt is completed with an endTime and 4 marks,
\* its submitTest was answered 200, the test is not live, and a start was
\* answered 400 while bob has no attempt.
C22_Witness ==
  \E p, o \in Procs : \E a \in DOMAIN attempts :
    /\ procs[p].resp = 200 /\ procs[o].resp = 400
    /\ attempts[a].candidateName = "alice"
    /\ attempts[a].isCompleted /\ attempts[a].endTime # 0
    /\ attempts[a].totalMarks = DefaultMarks
    /\ ~tests[attempts[a].testId].isLive
    /\ DOMAIN attempts = {a}
    /\ budget.toggles = MaxToggles

\* C23: a completed attempt stays: no step deletes it or makes it incomplete.
C23_CompletedIsTerminal ==
  [][\A a \in DOMAIN attempts :
       attempts[a].isCompleted
         => (a \in DOMAIN attempts' /\ attempts'[a].isCompleted)]_vars


OnlyAnswerFields(a, q) ==
  \A f \in DOMAIN answers[a][q] \ {"selectedOption", "integerAnswer", "status"} :
    answers'[a][q][f] = answers[a][q][f]

\* C25: syncAnswers is a pure field overwrite. A write of syncAnswers changes
\* at most selectedOption, integerAnswer and status, and only of the row
\* keyed by the handler's attemptId and a questionId of its body; isCorrect,
\* marksAwarded, timeSpent, visitCount and the visit timestamps of that row,
\* every other answers row, every attempt and every test stay as they were,
\* and no row is created or deleted.
C25_SyncOverwritesAnswerFieldsOnly ==
  [][\A p \in Procs :
       (Acts(p) /\ procs[p].pc = "syncWrite")
         => /\ attempts' = attempts
            /\ tests' = tests
            /\ DOMAIN answers' = DOMAIN answers
            /\ \A a \in DOMAIN answers :
                 /\ DOMAIN answers'[a] = DOMAIN answers[a]
                 /\ \A q \in DOMAIN answers[a] :
                      \/ answers'[a][q] = answers[a][q]
                      \/ /\ a = procs[p].attemptId
                         /\ \E i \in procs[p].pending :
                              procs[p].updates[i].questionId = q
                         /\ OnlyAnswerFields(a, q)]_vars

\* C25 witness: a syncAnswers answered 200 has overwritten the selectedOption
\* of the scored q1 row of a completed attempt with null; the row still has
\* isCorrect = false and its negative marks, the attempt its totalMarks.
C25_Witness ==
  /\ \E p \in Procs : procs[p].resp = 200
  /\ attempts[1].isCompleted
  /\ attempts[1].totalMarks = DefaultNegativeMarks
  /\ answers[1]["q1"].selectedOption = OptNull
  /\ answers[1]["q1"].isCorrect = "false"
  /\ answers[1]["q1"].marksAwarded = DefaultNegativeMarks

\* C26: an entry of a syncAnswers body whose row does not exist fails alone:
\* a body with an entry whose row exists is not answered as a failure of the
\* whole request.
C26_MissingRowFailsPerEntry ==
  [][\A p \in Procs :
       (/\ Acts(p) /\ procs[p].pc = "syncWrite"
        /\ procs'[p].op = "idle"
        /\ \E i \in 1..Len(procs[p].updates) :
             HasRow(procs[p].attemptId, procs[p].updates[i].questionId))
         => procs'[p].resp = 200]_vars


(***************************************************************************)
(* Properties of updateQuestionTime and syncTimeData.                      *)
(***************************************************************************)
\* C27: the timeSpent of an answer row never decreases, whatever
\* updateQuestionTime and syncTimeData calls run and however their steps
\* interleave (every delta the handlers accept is non-negative).
C27_TimeSpentNeverDecreases ==
  [][\A a \in DOMAIN answers :
       a \in DOMAIN answers'
         => \A q \in DOMAIN answers[a] :
              q \in DOMAIN answers'[a]
                => answers'[a][q].timeSpent >= answers[a][q].timeSpent]_vars

\* The time columns of row (a, q) are the ones the handler of p read.
RowAsRead(p, a, q) ==
  \A c \in DOMAIN TimeColumnDefaults : answers[a][q][c] = procs[p].time.read[c]

\* C28: the update of updateQuestionTime, on the row the handler read, adds
\* the given timeSpent and stamps lastVisitTime, and changes visitCount in two
\* cases only: when firstVisitTime is unset it sets visitCount to 1 and
\* firstVisitTime to now; when firstVisitTime is set and action is "visit" it
\* adds exactly 1; with any other action on a visited row visitCount and
\* firstVisitTime stay as they were.
C28_VisitCountRule ==
  [][\A p \in Procs : \A a \in DOMAIN answers : \A q \in DOMAIN answers[a] :
       (/\ Acts(p) /\ procs[p].pc = "timeWrite"
        /\ procs[p].attemptId = a /\ procs[p].time.questionId = q
        /\ RowAsRead(p, a, q))
         => /\ procs'[p].resp = 200
            /\ answers'[a][q].timeSpent =
                 answers[a][q].timeSpent + procs[p].time.timeSpent
            /\ answers'[a][q].lastVisitTime = now
            /\ IF answers[a][q].firstVisitTime = 0
               THEN /\ answers'[a][q].visitCount = 1
                    /\ answers'[a][q].firstVisitTime = now
               ELSE /\ answers'[a][q].firstVisitTime = answers[a][q].firstVisitTime
                    /\ answers'[a][q].visitCount =
                         IF procs[p].time.action = "visit"
                         THEN answers[a][q].visitCount + 1
                         ELSE answers[a][q].visitCount]_vars

\* C28 witness: a row visited twice with one unit of time: the first
\* updateQuestionTime set visitCount to 1, a later one with action "visit"
\* made it 2, and the last call was answered 200.
C28_Witness ==
  \E a \in DOMAIN answers :
    /\ "q1" \in DOMAIN answers[a]
    /\ answers[a]["q1"].visitCount = 2
    /\ answers[a]["q1"].timeSpent = 1
    /\ answers[a]["q1"].firstVisitTime # 0
    /\ \E p \in Procs : procs[p].op = "idle" /\ procs[p].resp = 200

\* A timeSpent value that is not a number or is negative.
BadTime(v) == ~IsNumber(v) \/ v[2] < 0

\* C29: both entry points reject a negative or non-numeric timeSpent: an
\* updateQuestionTime with such a timeSpent, and a syncTimeData whose map has
\* such an entry for an existing attempt, is answered 400 and changes no
\* answer row.
C29_BadTimeRejected ==
  [][\A p \in Procs : \A a \in AttemptIds :
       /\ \A q \in TimeQuestionIds : \A v \in TimeInputs : \A action \in TimeActions :
            (UpdateQuestionTime(p, a, q, v, action) /\ BadTime(v))
              => (procs'[p].resp = 400 /\ answers' = answers)
       /\ \A body \in TimeBodies :
            (/\ SyncTimeData(p, a, body)
             /\ a \in DOMAIN attempts
             /\ body.valid
             /\ \E q \in DOMAIN body.times : BadTime(body.times[q]))
              => (procs'[p].resp = 400 /\ answers' = answers)]_vars

\* C30: a syncTimeData answered 200 has, for every entry of its map with
\* timeSpent > 0, added exactly that timeSpent to the row and stamped
\* lastVisitTime, leaving visitCount, firstVisitTime and the answer fields as
\* they were, when the row existed, and created the row with that timeSpent,
\* visitCount 1 and both visit timestamps set to now when it did not; rows of
\* entries with timeSpent 0, and rows the map does not name, are unchanged.
C30_SyncTimeDataEffect ==
  [][\A p \in Procs : \A a \in AttemptIds : \A body \in TimeBodies :
       (SyncTimeData(p, a, body) /\ procs'[p].resp = 200)
         => /\ \A q \in DOMAIN body.times :
                 (IsNumber(body.times[q]) /\ body.times[q][2] > 0)
                   => /\ a \in DOMAIN answers' /\ q \in DOMAIN answers'[a]
                      /\ IF HasRow(a, q)
                         THEN answers'[a][q] =
                                [answers[a][q] EXCEPT
                                   !.timeSpent = @ + body.times[q][2],
                                   !.lastVisitTime = now]
                         ELSE /\ answers'[a][q].timeSpent = body.times[q][2]
                              /\ answers'[a][q].visitCount = 1
                              /\ answers'[a][q].firstVisitTime = now
                              /\ answers'[a][q].lastVisitTime = now
            /\ \A b \in DOMAIN answers : \A q \in DOMAIN answers[b] :
                 (\/ b # a
                  \/ q \notin DOMAIN body.times
                  \/ body.times[q] = JsNum(0))
                   => (b \in DOMAIN answers' /\ q \in DOMAIN answers'[b]
                       /\ answers'[b][q] = answers[b][q])
            /\ \A q \in DOMAIN body.times :
                 (body.times[q] = JsNum(0) /\ ~HasRow(a, q))
                   => ~(a \in DOMAIN answers' /\ q \in DOMAIN answers'[a])]_vars

\* C30 witness: a syncTimeData of {q1: 1, q3: 1}, answered 200, on a fresh
\* attempt: the q1 row has timeSpent 1 and a lastVisitTime but still
\* visitCount 0 and no firstVisitTime; the q3 row was created with timeSpent
\* 1, visitCount 1 and both timestamps.
C30_Witness ==
  \E a \in DOMAIN answers :
    /\ \E p \in Procs : procs[p].op = "idle" /\ procs[p].resp = 200
    /\ {"q1", "q3"} \subseteq DOMAIN answers[a]
    /\ answers[a]["q1"].timeSpent = 1
    /\ answers[a]["q1"].visitCount = 0
    /\ answers[a]["q1"].firstVisitTime = 0
    /\ answers[a]["q1"].lastVisitTime # 0
    /\ answers[a]["q3"].timeSpent = 1
    /\ answers[a]["q3"].visitCount = 1
    /\ answers[a]["q3"].firstVisitTime # 0
    /\ answers[a]["q3"].lastVisitTime # 0
    /\ answers[a]["q3"].status = "NOT_VISITED"

(***************************************************************************)
(* Properties of the answers to requests that name no stored row.          *)
(***************************************************************************)
\* C31: a submitTest, updateWarningCount, requestResume or allowResume whose
\* attemptId names no attempt is answered 404 and changes nothing stored.
C31_MissingAttemptIsNotFound ==
  [][\A p \in Procs : \A a \in AttemptIds :
       (/\ a \notin DOMAIN attempts
        /\ \/ \E b \in SubmitPayloads : SubmitTest(p, a, b)
           \/ UpdateWarningCount(p, a)
           \/ RequestResume(p, a)
           \/ AllowResume(p, a))
         => (/\ procs'[p].op = "idle" /\ procs'[p].resp = 404
             /\ UNCHANGED dbVars)]_vars

(***************************************************************************)
(* Properties of getResumeRequests.                                        *)
(***************************************************************************)
\* The answer of a getResumeRequests is a list without repetition of the
\* attempts of the set `as`, latest request first.
ListsExactly(ls, as) ==
  /\ {ls[i] : i \in DOMAIN ls} = as
  /\ Len(ls) = Cardinality(as)
  /\ \A i \in 1..(Len(ls) - 1) :
       attempts[ls[i]].resumeRequestedAt >= attempts[ls[i + 1]].resumeRequestedAt

\* Would a getResumeRequests issued now return attempt a?
Listed(a) == \E ls \in OrderedByRequest(PendingResume) : \E i \in DOMAIN ls : ls[i] = a

\* C32: getResumeRequests returns exactly the incomplete attempts with
\* needsResume and without canResume, latest request first; an incomplete
\* attempt is listed once requestResume has run on it, and is no longer
\* listed once allowResume has run on it, once it is completed, and once a
\* start has deleted it.
C32_ResumeListing ==
  [][\A p \in Procs :
       /\ GetResumeRequests(p)
            => /\ procs'[p].resp = 200
               /\ ListsExactly(procs'[p].listed,
                               {a \in DOMAIN attempts :
                                  /\ ~attempts[a].isCompleted
                                  /\ attempts[a].needsResume
                                  /\ ~attempts[a].canResume})
       /\ \A a \in DOMAIN attempts :
            /\ (RequestResume(p, a) /\ ~attempts[a].isCompleted) => Listed(a)'
            /\ AllowResume(p, a) => ~Listed(a)'
            /\ (a \in DOMAIN attempts' /\ attempts'[a].isCompleted) => ~Listed(a)'
            /\ a \notin DOMAIN attempts' => ~Listed(a)']_vars

(***************************************************************************)
(* Properties of submitTest's scoring and of what it stores.               *)
(***************************************************************************)
\* The answers of a body to questions of the attempt's test.
RECURSIVE KnownAnswers(_)
KnownAnswers(payload) ==
  IF payload = <<>>
  THEN <<>>
  ELSE (IF Head(payload).questionId \in Questions THEN <<Head(payload)>> ELSE <<>>)
         \o KnownAnswers(Tail(payload))

\* C33: an answer of a submitTest body whose questionId is not a question of
\* the attempt's test is skipped without error: the handler computes an
\* update for each of the other answers and for no other, with a total that
\* is the sum of their scores; its writes change no row of a question
\* outside the test, create none and do not fail; the attempt is completed
\* with that total and the request is answered 200.
C33_UnknownQuestionSkipped ==
  [][\A p \in Procs :
       /\ \A a \in DOMAIN attempts : \A b \in SkipPayloads :
            SubmitTest(p, a, b)
              => /\ procs'[p].resp = 0
                 /\ Len(procs'[p].updates) = Len(KnownAnswers(b))
                 /\ \A i \in 1..Len(KnownAnswers(b)) :
                      /\ procs'[p].updates[i].questionId = KnownAnswers(b)[i].questionId
                      /\ procs'[p].updates[i].marksAwarded =
                           ReferenceScore(Catalog[KnownAnswers(b)[i].questionId],
                                          KnownAnswers(b)[i])[2]
                 /\ procs'[p].total = ReferenceTotal(KnownAnswers(b))
       /\ (Acts(p) /\ procs[p].pc = "answerWrite")
            => /\ procs'[p].resp # 500
               /\ DOMAIN answers' = DOMAIN answers
               /\ \A a \in DOMAIN answers :
                    /\ DOMAIN answers'[a] = DOMAIN answers[a]
                    /\ \A q \in DOMAIN answers[a] \ Questions :
                         answers'[a][q] = answers[a][q]
       /\ (Acts(p) /\ procs[p].pc = "attemptUpdate")
            => /\ attempts'[procs[p].attemptId].isCompleted
               /\ attempts'[procs[p].attemptId].totalMarks =
                    ReferenceTotal(KnownAnswers(procs[p].payload))
       /\ (Acts(p) /\ procs[p].pc = "testUpdate") => procs'[p].resp = 200]_vars

\* C33 witness: a submitTest whose body answers q3 wrongly and q2 wrongly was
\* answered 200: the attempt is completed with the negative marks of q2
\* alone, q1 is untouched, and the q3 row that syncTimeData had inserted is
\* as it was, unscored.
C33_Witness ==
  /\ \E p \in Procs : procs[p].op = "idle" /\ procs[p].resp = 200
  /\ budget.ops = MaxSkipOps - 1
  /\ attempts[1].isCompleted
  /\ attempts[1].totalMarks = DefaultNegativeMarks
  /\ answers[1]["q2"].isCorrect = "false"
  /\ answers[1]["q1"].isCorrect = "null"
  /\ "q3" \in DOMAIN answers[1]
  /\ answers[1]["q3"].timeSpent = 1
  /\ answers[1]["q3"].selectedOption = OptNull
  /\ answers[1]["q3"].status = "NOT_VISITED"
  /\ answers[1]["q3"].isCorrect = "null"
  /\ answers[1]["q3"].marksAwarded = 0

(***************************************************************************)
(* Properties of the error handler.                                        *)
(***************************************************************************)
\* The error is one retryDatabaseOperation classifies as transient.
Transient(e) == isDatabaseConnectionError(e) \/ isNetworkError(e)

\* The call has returned or thrown.
RetryDone == retry.pc \in {"returned", "thrown"}

\* C34: retryDatabaseOperation terminates and invokes the operation at most
\* maxRetries times. It returns as soon as an invocation succeeds; an error
\* that is not classified as transient is rethrown at once, without another
\* invocation; after maxRetries transient failures in a row the last error is
\* thrown; the wait after the k-th failed attempt is baseDelay * 2^(k-1) and
\* there is no wait after the last attempt.
C34_RetryTerminates ==
  /\ [](/\ retry.calls <= retry.maxRetries
        /\ retry.calls = retry.attempt
        /\ \A k \in 1..Len(retry.waited) :
             retry.waited[k] = retry.baseDelay * 2^(k - 1)
        /\ Len(retry.waited) =
             IF retry.pc = "wait" THEN retry.calls
             ELSE IF retry.pc = "idle" THEN 0 ELSE retry.calls - 1
        /\ (retry.pc = "thrown" /\ Transient(retry.thrown))
             => (/\ retry.calls = retry.maxRetries
                 /\ Len(retry.waited) = retry.maxRetries - 1)
        /\ retry.pc = "thrown" => retry.thrown = retry.lastError)
  /\ [][/\ OperationReturns => (retry'.pc = "returned" /\ retry'.calls = retry.calls)
        /\ \A e \in Errors :
             (OperationThrows(e) /\ ~Transient(e))
               => (/\ retry'.pc = "thrown" /\ retry'.thrown = e
                   /\ retry'.waited = retry.waited)
        /\ RetryDone => retry'.calls = retry.calls]_vars
  /\ (retry.pc = "call") ~> RetryDone

\* C34 witness: with the defaults (3 attempts, 1000 ms) three transient
\* failures were followed by waits of 1000 and 2000 ms, none after the third,
\* and the error was thrown.
C34_Witness ==
  /\ retry.pc = "thrown"
  /\ retry.maxRetries = DefaultMaxRetries
  /\ retry.baseDelay = DefaultBaseDelay
  /\ retry.calls = DefaultMaxRetries
  /\ retry.waited = <<DefaultBaseDelay, 2 * DefaultBaseDelay>>
  /\ retry.thrown.code = "P1001"

\* The error is a connectivity or timeout failure: Prisma could not connect,
\* one of the codes P1001, P1008, P1017 or of the socket codes, or a message
\* that says so.
ConnectivityFailure(e) ==
  \/ e.name = "PrismaClientInitializationError"
  \/ e.code \in {"P1001", "P1008", "P1017",
                 "ENOTFOUND", "ECONNREFUSED", "ETIMEDOUT", "ECONNRESET"}
  \/ e.phrases \cap {"Can't reach database server", "Connection refused",
                     "timeout", "network", "internet", "DNS"} # {}

\* C35: a storage error that is not a connectivity or timeout failure, such
\* as a unique constraint (P2002) or record not found (P2025) request error,
\* is never retried by retryDatabaseOperation and is never answered with a
\* 503.
C35_OnlyConnectivityRetried ==
  [][/\ \A e \in Errors :
          (OperationThrows(e) /\ ~ConnectivityFailure(e))
            => retry'.pc = "thrown"
     /\ (AsyncHandlerAnswers /\ retry.pc = "thrown"
           /\ ~ConnectivityFailure(retry.thrown))
          => retry'.resp # 503]_vars

(***************************************************************************)
(* Invariants of the stored state.                                         *)
(***************************************************************************)
\* No request is being handled.
Quiescent == \A p \in Procs : procs[p].op = "idle"

\* C36: whenever no request is in flight, every attempt whose warningCount
\* has reached the threshold is completed.
C36_WarnedOutIsCompleted ==
  Quiescent
    => \A a \in DOMAIN attempts :
         attempts[a].warningCount >= WarningThreshold => attempts[a].isCompleted

\* C37: what submitTest stores for an answer is consistent: isCorrect = true
\* only if the stored selectedOption equals the question's correctOption or
\* the stored integerAnswer equals its correctInteger, and isCorrect = false
\* only if a value is stored (a non-empty selectedOption or a non-null
\* integerAnswer) and it matches neither; for every body, an integerAnswer
\* given as a numeric string or as the empty string included.
C37_StoredScoreAgreesWithStoredValues ==
  sres.scored
    => LET optionMatches == /\ Truthy(sres.selectedOption)
                            /\ sres.selectedOption = sq.correctOption
           integerMatches == /\ sres.integerAnswer # IntNull
                             /\ sres.integerAnswer = sq.correctInteger
           valueStored == Truthy(sres.selectedOption) \/ sres.integerAnswer # IntNull
       IN /\ sres.isCorrect = "true" => (optionMatches \/ integerMatches)
          /\ sres.isCorrect = "false"
               => (valueStored /\ ~optionMatches /\ ~integerMatches)

\* C38: whatever updateQuestionTime and syncTimeData calls have run, every
\* answer row with timeSpent > 0 has visitCount >= 1 and a firstVisitTime.
C38_TimedRowWasVisited ==
  \A a \in DOMAIN answers : \A q \in DOMAIN answers[a] :
    answers[a][q].timeSpent > 0
      => (answers[a][q].visitCount >= 1 /\ answers[a][q].firstVisitTime # 0)

(***************************************************************************)
(* The frame of startTestAttempt.                                          *)
(***************************************************************************)
\* Attempt a belongs to the (testId, candidateName) of the start of p.
OfPair(p, a) ==
  /\ attempts[a].testId = procs[p].testId
  /\ attempts[a].candidateName = procs[p].cand

\* C39: a step of startTestAttempt for (testId, candidateName) leaves every
\* attempt of another candidate or of another test, and its answer rows, as
\* they were; an attempt it deletes is an attempt of that pair, is not
\* completed, and is the only incomplete attempt of the pair.
C39_StartTouchesOwnPairOnly ==
  [][\A p \in Procs :
       (Acts(p) /\ procs[p].op = "start")
         => /\ \A a \in DOMAIN attempts :
                 ~OfPair(p, a)
                   => /\ a \in DOMAIN attempts' /\ attempts'[a] = attempts[a]
                      /\ a \in DOMAIN answers' /\ answers'[a] = answers[a]
            /\ \A a \in DOMAIN attempts :
                 a \notin DOMAIN attempts'
                   => /\ OfPair(p, a)
                      /\ ~attempts[a].isCompleted
                      /\ \A b \in DOMAIN attempts :
                           (OfPair(p, b) /\ ~attempts[b].isCompleted) => b = a]_vars

(***************************************************************************)
(* The answer key an author supplies, and the scoring of an answer to it.  *)
(***************************************************************************)
\* The value is an integer: a number, or the string that spells one.
SuppliesInteger(v) == v[1] \in {"number", "numstr"}

\* C40: once a question is saved by createTest or updateTest, the integer
\* the author supplied as correctInteger (0 included) is the stored
\* correctInteger, and a scorable answer that is this integer is scored
\* correct by submitTest.
C40_AuthoredIntegerIsTheKey ==
  (authored.saved /\ SuppliesInteger(authored.correctInteger))
    => /\ sq.correctInteger = JsNum(authored.correctInteger[2])
       /\ (sres.scored /\ sa.status \in Scorable
             /\ sa.integerAnswer = JsNum(authored.correctInteger[2]))
            => sres.isCorrect = "true"

=============================================================================
